---- MODULE Spec2Model ----
(***************************************************************************)
(* Idle-detection engine of the RunPod monitor: the counter-based          *)
(* AutoStopTracker (auto_stop_tracker.py), the hook-driven MetricWriter    *)
(* (metric_writer.py) and the hooks that connect them (hooks.py).          *)
(*                                                                         *)
(* A metric is a Python dict: a function from field names to values, so a  *)
(* missing key is a name outside DOMAIN.  Epochs are whole seconds >= 1;   *)
(* None stands for Python's None in an epoch-typed field.                  *)
(***************************************************************************)
EXTENDS Integers, Sequences, FiniteSets, TLC

VARIABLES
    now,              \* time.time()
    log,              \* lines of data/pod_metrics.jsonl, oldest first
    pod_files,        \* data/pods/<pod_id>/metrics.jsonl, written by separate_by_pod_hook
    counters,         \* AutoStopTracker.counters
    thresholds,       \* AutoStopTracker.thresholds
    excluded_pods,    \* AutoStopTracker.excluded_pods
    counter_file,     \* contents of auto_stop_counters.json
    pre_write_hooks,  \* MetricWriter.pre_write_hooks
    post_write_hooks, \* MetricWriter.post_write_hooks
    write_count,      \* MetricWriter.write_count
    streak,           \* history: per pod, the run of qualifying update_counter calls
    lastop,           \* history: the call made by the last step
    data,             \* DataTracker.data: pod id -> metrics held in memory
    raw_file,         \* data/pods/<pod>/metrics_raw.jsonl of one pod
    compacted,        \* its metrics_30min.jsonl and metrics_1hour.jsonl, by file type
    rewrite,          \* the file being rewritten in place, if any
    disk,             \* which files of the data directory exist, and the legacy JSON map
    monitor,          \* the monitoring loop: whether it still runs, and its last cycle
    ctl               \* the configuration the dashboard edits, and the threads around it

podVars == <<raw_file, compacted>>
auxVars == <<rewrite, disk, monitor, ctl>>
\* the state outside the tracker and the writer
storeVars == <<data, raw_file, compacted, rewrite, disk, monitor, ctl>>

vars == <<now, log, pod_files, counters, thresholds, excluded_pods, counter_file,
          pre_write_hooks, post_write_hooks, write_count, streak, lastop,
          data, raw_file, compacted, rewrite, disk, monitor, ctl>>

----------------------------------------------------------------------------
(* Bounds of the model *)

MaxTime == 4
MaxLog == 3
MaxWrites == 2
MaxHooks == 2
MaxPolls == 5
MaxRaw == 3
MaxCalls == 2

Pods == {"p1"}
NameOf(p) == "n1"
Durations == {3}
\* durations initialize_from_jsonl is called with: the shorter one puts the
\* oldest samples outside the window
RebuildDurations == {2, 3}
StaleAges == {2}
ExcludedChoices == {{}, {"p1"}, {"n1"}}

(* Program constants *)
None == -1
DefaultMaxPercent == 1
DefaultDuration == 3600
min_data_points == 3
SaveEvery == 10

----------------------------------------------------------------------------
(* Python dict helpers *)

EmptyDict == [k \in {} |-> 0]
Get(d, k, default) == IF k \in DOMAIN d THEN d[k] ELSE default
DictSet(d, k, v) == [x \in (DOMAIN d) \cup {k} |-> IF x = k THEN v ELSE d[x]]
DictDel(d, k) == [x \in (DOMAIN d) \ {k} |-> d[x]]

RECURSIVE SumCounts(_, _)
SumCounts(c, S) ==
    IF S = {} THEN 0
    ELSE LET p == CHOOSE q \in S : TRUE
         IN Get(c[p], "consecutive_below_threshold", 0) + SumCounts(c, S \ {p})

----------------------------------------------------------------------------
(* Threshold evaluator *)

\* a threshold test that forgets the memory ceiling
_is_below_threshold_no_memory(metric, thr) ==
    /\ Get(metric, "cpu_percent", 0) <= Get(thr, "max_cpu_percent", DefaultMaxPercent)
    /\ Get(metric, "gpu_percent", 0) <= Get(thr, "max_gpu_percent", DefaultMaxPercent)

_is_below_threshold(metric, thr) ==
    LET cpu == Get(metric, "cpu_percent", 0)
        gpu == Get(metric, "gpu_percent", 0)
        memory == Get(metric, "memory_percent", 0)
    IN /\ cpu <= Get(thr, "max_cpu_percent", DefaultMaxPercent)
       /\ gpu <= Get(thr, "max_gpu_percent", DefaultMaxPercent)
       /\ memory <= Get(thr, "max_memory_percent", DefaultMaxPercent)

Thresholds(d) ==
    [max_cpu_percent |-> 1, max_gpu_percent |-> 1, max_memory_percent |-> 1,
     duration |-> d, detect_no_change |-> FALSE]

\* Python truthiness of an epoch-or-None value
Truthy(x) == x # None /\ x # 0

----------------------------------------------------------------------------
(* AutoStopTracker *)

\* a new entry that stamps first_below_epoch whatever the sample
NewEntryAlwaysStamped(metric, is_below, current_epoch) ==
    [consecutive_below_threshold |-> IF is_below THEN 1 ELSE 0,
     last_check_epoch |-> current_epoch,
     first_below_epoch |-> current_epoch,
     last_metrics |-> [cpu |-> Get(metric, "cpu_percent", 0),
                       gpu |-> Get(metric, "gpu_percent", 0),
                       memory |-> Get(metric, "memory_percent", 0)],
     pod_name |-> Get(metric, "name", ""),
     status |-> Get(metric, "status", "UNKNOWN")]

NewEntry(metric, is_below, current_epoch) ==
    [consecutive_below_threshold |-> IF is_below THEN 1 ELSE 0,
     last_check_epoch |-> current_epoch,
     first_below_epoch |-> IF is_below THEN current_epoch ELSE None,
     last_metrics |-> [cpu |-> Get(metric, "cpu_percent", 0),
                       gpu |-> Get(metric, "gpu_percent", 0),
                       memory |-> Get(metric, "memory_percent", 0)],
     pod_name |-> Get(metric, "name", ""),
     status |-> Get(metric, "status", "UNKNOWN")]

\* an update that restamps first_below_epoch on every below-threshold sample
UpdatedEntryRestamped(counter, metric, is_below, current_epoch) ==
    [consecutive_below_threshold |->
         IF is_below THEN counter.consecutive_below_threshold + 1 ELSE 0,
     last_check_epoch |-> current_epoch,
     first_below_epoch |-> IF is_below THEN current_epoch ELSE None,
     last_metrics |-> [cpu |-> Get(metric, "cpu_percent", 0),
                       gpu |-> Get(metric, "gpu_percent", 0),
                       memory |-> Get(metric, "memory_percent", 0)],
     pod_name |-> Get(metric, "name", ""),
     status |-> Get(metric, "status", "UNKNOWN")]

UpdatedEntry(counter, metric, is_below, current_epoch) ==
    [consecutive_below_threshold |->
         IF is_below THEN counter.consecutive_below_threshold + 1 ELSE 0,
     last_check_epoch |-> current_epoch,
     first_below_epoch |->
         IF is_below
         THEN IF counter.consecutive_below_threshold = 0
              THEN current_epoch ELSE counter.first_below_epoch
         ELSE None,
     last_metrics |-> [cpu |-> Get(metric, "cpu_percent", 0),
                       gpu |-> Get(metric, "gpu_percent", 0),
                       memory |-> Get(metric, "memory_percent", 0)],
     pod_name |-> Get(metric, "name", ""),
     status |-> Get(metric, "status", "UNKNOWN")]

\* update_counter: the counters after the call, and whether it reached
\* save_counters (every tenth accumulated count).
update_counter(c, metric, thr, excl, t) ==
    LET pod_id == Get(metric, "pod_id", "")
        pod_name == Get(metric, "name", "")
        current_epoch == Get(metric, "epoch", t)
        status == Get(metric, "status", "UNKNOWN")
        is_below == _is_below_threshold(metric, thr)
    IN IF pod_id = "" THEN [counters |-> c, saved |-> FALSE]
       ELSE IF pod_id \in excl \/ pod_name \in excl
       THEN [counters |-> DictDel(c, pod_id), saved |-> FALSE]
       ELSE IF status # "RUNNING"
       THEN [counters |-> DictDel(c, pod_id), saved |-> FALSE]
       ELSE LET c2 == IF pod_id \notin DOMAIN c
                      THEN DictSet(c, pod_id, NewEntry(metric, is_below, current_epoch))
                      ELSE DictSet(c, pod_id,
                                   UpdatedEntry(c[pod_id], metric, is_below, current_epoch))
            IN [counters |-> c2, saved |-> SumCounts(c2, DOMAIN c2) % SaveEvery = 0]

\* a check whose duration test is strict
check_auto_stop_strict(c, thr, t, pod_id) ==
    IF pod_id \notin DOMAIN c THEN [should_stop |-> FALSE, has_counter |-> FALSE]
    ELSE LET counter == c[pod_id]
         IN [should_stop |->
                 /\ counter.consecutive_below_threshold >= min_data_points
                 /\ Truthy(counter.first_below_epoch)
                 /\ t - counter.first_below_epoch > Get(thr, "duration", DefaultDuration),
             has_counter |-> TRUE]

\* check_auto_stop on given tracker state
check_auto_stop_in(c, thr, t, pod_id) ==
    IF pod_id \notin DOMAIN c THEN [should_stop |-> FALSE, has_counter |-> FALSE]
    ELSE LET counter == c[pod_id]
         IN IF counter.consecutive_below_threshold > 0 /\ Truthy(counter.first_below_epoch)
            THEN LET duration_below == t - counter.first_below_epoch
                     required_duration == Get(thr, "duration", DefaultDuration)
                 IN IF counter.consecutive_below_threshold >= min_data_points
                       /\ duration_below >= required_duration
                    THEN [should_stop |-> TRUE, has_counter |-> TRUE]
                    ELSE [should_stop |-> FALSE, has_counter |-> TRUE]
            ELSE [should_stop |-> FALSE, has_counter |-> TRUE]

check_auto_stop(pod_id) == check_auto_stop_in(counters, thresholds, now, pod_id)

\* list.sort(key=epoch): a stable insertion sort
RECURSIVE InsertByEpoch(_, _)
InsertByEpoch(sorted, m) ==
    IF sorted = <<>> THEN <<m>>
    ELSE IF Get(sorted[Len(sorted)], "epoch", 0) <= Get(m, "epoch", 0)
         THEN Append(sorted, m)
         ELSE Append(InsertByEpoch(SubSeq(sorted, 1, Len(sorted) - 1), m),
                     sorted[Len(sorted)])

RECURSIVE SortByEpoch(_)
SortByEpoch(ms) ==
    IF ms = <<>> THEN <<>>
    ELSE InsertByEpoch(SortByEpoch(SubSeq(ms, 1, Len(ms) - 1)), ms[Len(ms)])

\* the lines of one pod that lie inside the duration window
RecentMetrics(lg, pod_id, cutoff_time) ==
    SelectSeq(lg, LAMBDA m : Get(m, "pod_id", "") = pod_id
                             /\ Get(m, "epoch", 0) >= cutoff_time)

\* the backward walk: how many metrics, from index i down, are below threshold
RECURSIVE CountBack(_, _, _)
CountBack(metrics, i, thr) ==
    IF i = 0 THEN 0
    ELSE IF _is_below_threshold(metrics[i], thr)
         THEN 1 + CountBack(metrics, i - 1, thr)
         ELSE 0

\* first_below_epoch is stamped at the first counted metric the reversed walk
\* meets (and again at the next one while it is still None)
RECURSIVE FirstEpochBack(_, _, _)
FirstEpochBack(metrics, i, n) ==
    IF n = 0 THEN None
    ELSE IF Get(metrics[i], "epoch", None) # None THEN metrics[i]["epoch"]
         ELSE FirstEpochBack(metrics, i - 1, n - 1)

RebuiltEntry(metrics, thr, current_time) ==
    LET last_metric == metrics[Len(metrics)]
        consecutive_count == CountBack(metrics, Len(metrics), thr)
    IN [consecutive_below_threshold |-> consecutive_count,
        last_check_epoch |-> Get(last_metric, "epoch", current_time),
        first_below_epoch |-> FirstEpochBack(metrics, Len(metrics), consecutive_count),
        last_metrics |-> [cpu |-> Get(last_metric, "cpu_percent", 0),
                          gpu |-> Get(last_metric, "gpu_percent", 0),
                          memory |-> Get(last_metric, "memory_percent", 0)],
        pod_name |-> Get(last_metric, "name", ""),
        status |-> Get(last_metric, "status", "UNKNOWN")]

\* a rebuild that adds the rebuilt count to the count already held
initialize_accumulating(c, lg, thr, current_time) ==
    LET cutoff_time == current_time - Get(thr, "duration", DefaultDuration)
        seen == {Get(lg[i], "pod_id", "") : i \in 1..Len(lg)} \ {""}
        found == {p \in seen : RecentMetrics(lg, p, cutoff_time) # <<>>}
        rebuilt(p) == RebuiltEntry(SortByEpoch(RecentMetrics(lg, p, cutoff_time)),
                                   thr, current_time)
    IN [p \in (DOMAIN c) \cup found |->
            IF p \in found
            THEN IF p \in DOMAIN c
                 THEN [rebuilt(p) EXCEPT !.consecutive_below_threshold =
                           @ + c[p].consecutive_below_threshold]
                 ELSE rebuilt(p)
            ELSE c[p]]

\* initialize_from_jsonl: the counters after the call
initialize_from_jsonl(c, lg, thr, current_time) ==
    LET cutoff_time == current_time - Get(thr, "duration", DefaultDuration)
        seen == {Get(lg[i], "pod_id", "") : i \in 1..Len(lg)} \ {""}
        found == {p \in seen : RecentMetrics(lg, p, cutoff_time) # <<>>}
    IN [p \in (DOMAIN c) \cup found |->
            IF p \in found
            THEN RebuiltEntry(SortByEpoch(RecentMetrics(lg, p, cutoff_time)),
                              thr, current_time)
            ELSE c[p]]

cleanup_stale_counters(c, max_age_seconds, current_time) ==
    LET stale_pods == {p \in DOMAIN c :
                         current_time - Get(c[p], "last_check_epoch", 0) > max_age_seconds}
    IN [p \in (DOMAIN c) \ stale_pods |-> c[p]]

----------------------------------------------------------------------------
(* Hooks *)

RequiredFields == {"pod_id", "timestamp", "epoch"}

\* a pre-write hook returns [raised, metric]; metric = EmptyDict with
\* returned_none set would stand for a hook returning None
validate_metric_hook(metric_point) ==
    IF \E field \in RequiredFields : field \notin DOMAIN metric_point
    THEN [raised |-> TRUE, returned_none |-> FALSE, metric |-> metric_point]
    ELSE [raised |-> FALSE, returned_none |-> FALSE, metric |-> metric_point]

add_metadata_hook(metric_point, t) ==
    [raised |-> FALSE, returned_none |-> FALSE,
     metric |-> DictSet(DictSet(metric_point, "writer_version", "2.0"), "write_time", t)]

RunPreHook(hook, metric_point, t) ==
    IF hook = "validate_metric_hook" THEN validate_metric_hook(metric_point)
    ELSE add_metadata_hook(metric_point, t)

\* history: a qualifying sample (RUNNING, not excluded, at or below every
\* threshold) starts a run when the pod has no entry and extends a run that
\* is under way; any other sample for the pod ends it
NoStreak == [n |-> 0, first |-> None]
Qualifies(metric, thr, excl) ==
    /\ Get(metric, "pod_id", "") \notin excl
    /\ Get(metric, "name", "") \notin excl
    /\ Get(metric, "status", "UNKNOWN") = "RUNNING"
    /\ _is_below_threshold(metric, thr)
StreakAfter(sk, c, metric, thr, excl, t) ==
    LET pod_id == Get(metric, "pod_id", "")
    IN IF pod_id \notin DOMAIN sk THEN sk
       ELSE IF ~Qualifies(metric, thr, excl) THEN [sk EXCEPT ![pod_id] = NoStreak]
       ELSE IF pod_id \notin DOMAIN c
       THEN [sk EXCEPT ![pod_id] = [n |-> 1, first |-> Get(metric, "epoch", t)]]
       ELSE IF sk[pod_id].n > 0
       THEN [sk EXCEPT ![pod_id] = [n |-> sk[pod_id].n + 1, first |-> sk[pod_id].first]]
       ELSE sk

\* the tracker and pod-file state a post-write hook works on
update_auto_stop_counter_hook(st, metric_point, t) ==
    LET u == update_counter(st.counters, metric_point, st.thresholds, st.excluded_pods, t)
    IN [st EXCEPT !.counters = u.counters,
                  !.counter_file = IF u.saved THEN u.counters ELSE st.counter_file,
                  !.streak = StreakAfter(st.streak, st.counters, metric_point,
                                         st.thresholds, st.excluded_pods, t)]

separate_by_pod_hook(st, metric_point, pod_io_ok) ==
    LET pod_id == Get(metric_point, "pod_id", "")
    IN IF pod_id = "" THEN st
       ELSE IF ~pod_io_ok THEN [st EXCEPT !.raised = Append(st.raised, "separate_by_pod_hook")]
       ELSE [st EXCEPT !.pod_files =
                 DictSet(st.pod_files, pod_id,
                         Append(Get(st.pod_files, pod_id, <<>>), metric_point))]

RunPostHook(hook, st, metric_point, t, pod_io_ok) ==
    LET after == IF hook = "update_auto_stop_counter_hook"
                 THEN update_auto_stop_counter_hook(st, metric_point, t)
                 ELSE separate_by_pod_hook(st, metric_point, pod_io_ok)
    IN [after EXCEPT !.run = Append(after.run, hook)]

----------------------------------------------------------------------------
(* MetricWriter.write_metric *)

\* the pre-write loop from hook i on: a raising hook is logged and the loop
\* goes on with the metric it had; a hook returning None ends the write
RECURSIVE RunPreHooks(_, _, _, _)
RunPreHooks(hooks, i, acc, t) ==
    IF i > Len(hooks) THEN acc
    ELSE LET r == RunPreHook(hooks[i], acc.metric, t)
         IN IF r.raised
            THEN RunPreHooks(hooks, i + 1,
                             [acc EXCEPT !.pre_raised = Append(acc.pre_raised, hooks[i])], t)
            ELSE IF r.returned_none
            THEN [acc EXCEPT !.skipped = TRUE]
            ELSE RunPreHooks(hooks, i + 1, [acc EXCEPT !.metric = r.metric], t)

\* a post-write loop that gives up at the first hook that raises
RECURSIVE RunPostHooksAborting(_, _, _, _, _, _)
RunPostHooksAborting(hooks, i, st, metric_point, t, pod_io_ok) ==
    IF i > Len(hooks) THEN st
    ELSE LET after == RunPostHook(hooks[i], st, metric_point, t, pod_io_ok)
         IN IF after.raised # st.raised THEN after
            ELSE RunPostHooksAborting(hooks, i + 1, after, metric_point, t, pod_io_ok)

RECURSIVE RunPostHooks(_, _, _, _, _, _)
RunPostHooks(hooks, i, st, metric_point, t, pod_io_ok) ==
    IF i > Len(hooks) THEN st
    ELSE RunPostHooks(hooks, i + 1, RunPostHook(hooks[i], st, metric_point, t, pod_io_ok),
                      metric_point, t, pod_io_ok)

\* a write that runs the post-write hooks although the append failed
write_metric_hooks_after_failure(metric_point, io_ok, pod_io_ok) ==
    LET pre == RunPreHooks(pre_write_hooks, 1,
                           [metric |-> metric_point, pre_raised |-> <<>>, skipped |-> FALSE],
                           now)
        st0 == [counters |-> counters, counter_file |-> counter_file,
                thresholds |-> thresholds, excluded_pods |-> excluded_pods,
                pod_files |-> pod_files, streak |-> streak, run |-> <<>>, raised |-> <<>>]
        post == RunPostHooks(post_write_hooks, 1, st0, pre.metric, now, pod_io_ok)
    IN [result |-> io_ok, appended |-> io_ok, metric |-> pre.metric,
        pre_raised |-> pre.pre_raised, io_error |-> ~io_ok, state |-> post]

\* everything write_metric returns and changes
write_metric(metric_point, io_ok, pod_io_ok) ==
    LET pre == RunPreHooks(pre_write_hooks, 1,
                           [metric |-> metric_point, pre_raised |-> <<>>, skipped |-> FALSE],
                           now)
        st0 == [counters |-> counters, counter_file |-> counter_file,
                thresholds |-> thresholds, excluded_pods |-> excluded_pods,
                pod_files |-> pod_files, streak |-> streak, run |-> <<>>, raised |-> <<>>]
        post == RunPostHooks(post_write_hooks, 1, st0, pre.metric, now, pod_io_ok)
    IN IF pre.skipped
       THEN [result |-> FALSE, appended |-> FALSE, metric |-> pre.metric,
             pre_raised |-> pre.pre_raised, io_error |-> FALSE, state |-> st0]
       ELSE IF ~io_ok
       THEN [result |-> FALSE, appended |-> FALSE, metric |-> pre.metric,
             pre_raised |-> pre.pre_raised, io_error |-> TRUE, state |-> st0]
       ELSE [result |-> TRUE, appended |-> TRUE, metric |-> pre.metric,
             pre_raised |-> pre.pre_raised, io_error |-> FALSE, state |-> post]

----------------------------------------------------------------------------
(* Inputs *)

PreHooks == {"validate_metric_hook", "add_metadata_hook"}
PostHooks == {"update_auto_stop_counter_hook", "separate_by_pod_hook"}

\* cpu, gpu, memory: at the ceiling of 1, or above one of the three
IdleLoad == <<1, 1, 1>>
BusyLoads == {<<2, 1, 1>>, <<1, 2, 1>>, <<1, 1, 2>>}

\* the metric point add_metric builds for one polled pod
MetricPoint(pod_id, status, load, t) ==
    [timestamp |-> t, epoch |-> t, pod_id |-> pod_id, name |-> NameOf(pod_id),
     status |-> status, cpu_percent |-> load[1], gpu_percent |-> load[2],
     memory_percent |-> load[3]]

PolledMetrics(t) ==
    {MetricPoint(p, "RUNNING", l, t) : p \in Pods, l \in {IdleLoad} \cup BusyLoads}
    \cup {MetricPoint(p, "EXITED", <<0, 0, 0>>, t) : p \in Pods}

\* metrics handed to write_metric directly, some without a required field
DirectMetrics(t) ==
    LET good == MetricPoint("p1", "RUNNING", IdleLoad, t)
    IN {good,
        [k \in (DOMAIN good) \ {"epoch"} |-> good[k]],
        [k \in (DOMAIN good) \ {"pod_id"} |-> good[k]]}

----------------------------------------------------------------------------
(* Actions *)

\* lastop records the call made by the last step when it was write_metric or
\* initialize_from_jsonl, with what it returned and the counters it started from
Call(name) ==
    [op |-> name, metric |-> EmptyDict, result |-> TRUE, appended |-> FALSE,
     pre_raised |-> <<>>, io_error |-> FALSE, post_run |-> <<>>, post_raised |-> <<>>,
     before |-> EmptyDict]
NoCall == Call("other")

NoStreaks == [p \in Pods |-> NoStreak]

Tick ==
    /\ now < MaxTime
    /\ now' = now + 1
    /\ lastop' = NoCall
    /\ UNCHANGED <<log, pod_files, counters, thresholds, excluded_pods, counter_file,
                   pre_write_hooks, post_write_hooks, write_count, streak>>
    /\ UNCHANGED storeVars

SetThresholds(thr, excl) ==
    /\ thresholds' = thr
    /\ excluded_pods' = excl
    /\ lastop' = NoCall
    /\ UNCHANGED <<now, log, pod_files, counters, counter_file,
                   pre_write_hooks, post_write_hooks, write_count, streak>>
    /\ UNCHANGED storeVars

WriteMetric(metric_point, io_ok, pod_io_ok) ==
    LET w == write_metric(metric_point, io_ok, pod_io_ok)
    IN /\ log' = IF w.appended THEN Append(log, w.metric) ELSE log
       /\ write_count' = IF w.appended THEN write_count + 1 ELSE write_count
       /\ counters' = w.state.counters
       /\ counter_file' = w.state.counter_file
       /\ pod_files' = w.state.pod_files
       /\ streak' = w.state.streak
       /\ lastop' = [op |-> "write_metric", metric |-> w.metric, result |-> w.result,
                     appended |-> w.appended, pre_raised |-> w.pre_raised,
                     io_error |-> w.io_error, post_run |-> w.state.run,
                     post_raised |-> w.state.raised, before |-> counters]
       /\ UNCHANGED <<now, thresholds, excluded_pods, pre_write_hooks, post_write_hooks>>

\* DataTracker.save_metric of the point add_metric built in this poll cycle
SaveMetric ==
    /\ Len(log) < MaxLog
    /\ \E m \in PolledMetrics(now) :
          \* one sample per pod per poll cycle
          /\ \A i \in 1..Len(log) : log[i]["pod_id"] = m["pod_id"] => log[i]["epoch"] < now
          /\ WriteMetric(m, TRUE, TRUE)
    /\ UNCHANGED storeVars

InitializeFromJsonl(thr) ==
    /\ IF log = <<>>
       THEN UNCHANGED <<counters, counter_file>>
       ELSE /\ counters' = initialize_from_jsonl(counters, log, thr, now)
            /\ counter_file' = counters'
    /\ streak' = NoStreaks
    /\ lastop' = Call("initialize_from_jsonl")
    /\ UNCHANGED <<now, log, pod_files, thresholds, excluded_pods,
                   pre_write_hooks, post_write_hooks, write_count>>
    /\ UNCHANGED storeVars

CleanupStale(max_age_seconds) ==
    /\ counters' = cleanup_stale_counters(counters, max_age_seconds, now)
    /\ counter_file' = IF counters' # counters THEN counters' ELSE counter_file
    /\ streak' = NoStreaks
    /\ lastop' = NoCall
    /\ UNCHANGED <<now, log, pod_files, thresholds, excluded_pods,
                   pre_write_hooks, post_write_hooks, write_count>>
    /\ UNCHANGED storeVars

ResetCounter(pod_id) ==
    /\ counters' = DictDel(counters, pod_id)
    /\ counter_file' = IF pod_id \in DOMAIN counters THEN counters' ELSE counter_file
    /\ streak' = NoStreaks
    /\ lastop' = NoCall
    /\ UNCHANGED <<now, log, pod_files, thresholds, excluded_pods,
                   pre_write_hooks, post_write_hooks, write_count>>
    /\ UNCHANGED storeVars

\* a new process: AutoStopTracker.__init__ loads the persisted counters
Restart ==
    /\ counters' = counter_file
    /\ thresholds' = EmptyDict
    /\ excluded_pods' = {}
    /\ streak' = NoStreaks
    /\ lastop' = NoCall
    /\ UNCHANGED <<now, log, pod_files, counter_file,
                   pre_write_hooks, post_write_hooks, write_count>>
    /\ UNCHANGED storeVars

AddPreWriteHook(func) ==
    /\ Len(pre_write_hooks) + Len(post_write_hooks) < MaxHooks
    /\ pre_write_hooks' = Append(pre_write_hooks, func)
    /\ lastop' = NoCall
    /\ UNCHANGED <<now, log, pod_files, counters, thresholds, excluded_pods, counter_file,
                   post_write_hooks, write_count, streak>>
    /\ UNCHANGED storeVars

AddPostWriteHook(func) ==
    /\ Len(pre_write_hooks) + Len(post_write_hooks) < MaxHooks
    /\ post_write_hooks' = Append(post_write_hooks, func)
    /\ lastop' = NoCall
    /\ UNCHANGED <<now, log, pod_files, counters, thresholds, excluded_pods, counter_file,
                   pre_write_hooks, write_count, streak>>
    /\ UNCHANGED storeVars

\* write_metric called with any metric, the append and the pod file failing or not
DirectWrite ==
    /\ Len(log) < MaxWrites
    /\ \E m \in DirectMetrics(now) : \E io_ok \in BOOLEAN : \E pod_io_ok \in BOOLEAN :
           WriteMetric(m, io_ok, pod_io_ok)
    /\ UNCHANGED storeVars

----------------------------------------------------------------------------
(* Specifications *)

NoRewrite == [target |-> "none", old |-> <<>>, new |-> <<>>, pending |-> <<>>]

\* a data directory with no file yet, the log configured as pod_metrics.jsonl
NoFiles == [metrics_file |-> "pod_metrics.jsonl", legacy_exists |-> FALSE,
            legacy |-> EmptyDict, log_exists |-> FALSE]

\* a loop that has not run a cycle yet; current_time is None while the
\* local variable of that name is unbound
NoCycle == [kind |-> "none", io_ok |-> TRUE, swept |-> FALSE, metric |-> EmptyDict]
NoMonitor(mode) ==
    [mode |-> mode, running |-> TRUE, current_time |-> None, last_poll |-> 0,
     last |-> NoCycle]

\* nothing excluded, auto-stop and monitor-only off, the loop between two
\* pods, no monitoring thread
NoCtl ==
    [exclude_pods |-> {}, enabled |-> FALSE, monitor_only |-> FALSE,
     pc |-> "idle", local_enabled |-> FALSE, local_monitor_only |-> FALSE,
     stop_invoked |-> FALSE, would_stop_reported |-> FALSE,
     phase |-> "off", config_loaded |-> FALSE,
     monitoring_active |-> FALSE, monitoring_thread |-> 0, threads |-> <<>>,
     callers |-> [c \in {"background_init", "event_loop"} |-> "off"],
     calls |-> 0, stop_requested |-> FALSE]

InitAux ==
    /\ rewrite = NoRewrite
    /\ disk = NoFiles
    /\ monitor = NoMonitor("main")
    /\ ctl = NoCtl

InitStores ==
    /\ InitAux
    /\ log = <<>>
    /\ pod_files = EmptyDict
    /\ counters = EmptyDict
    /\ thresholds = EmptyDict
    /\ excluded_pods = {}
    /\ counter_file = EmptyDict
    /\ write_count = 0
    /\ streak = NoStreaks
    /\ lastop = NoCall
    /\ data = EmptyDict
    /\ raw_file = <<>>
    /\ compacted = [file_type \in {"30min", "1hour"} |-> <<>>]

InitCommon ==
    /\ now = 1
    /\ InitStores

\* the tracker behind a writer wired with the validation pre-write hook and
\* the counter-update post-write hook
Init ==
    /\ InitCommon
    /\ pre_write_hooks = <<"validate_metric_hook">>
    /\ post_write_hooks = <<"update_auto_stop_counter_hook">>

Next ==
    \/ Tick
    \/ \E d \in Durations : \E excl \in ExcludedChoices : SetThresholds(Thresholds(d), excl)
    \/ SaveMetric
    \/ \E d \in RebuildDurations : InitializeFromJsonl(Thresholds(d))
    \/ \E a \in StaleAges : CleanupStale(a)
    \/ \E p \in Pods : ResetCounter(p)
    \/ Restart

Spec == Init /\ [][Next]_vars

\* a freshly constructed MetricWriter: hooks are registered, then metrics written
InitWriter ==
    /\ InitCommon
    /\ pre_write_hooks = <<>>
    /\ post_write_hooks = <<>>

NextWriter ==
    \/ \E h \in PreHooks : AddPreWriteHook(h)
    \/ \E h \in PostHooks : AddPostWriteHook(h)
    \/ DirectWrite

SpecWriter == InitWriter /\ [][NextWriter]_vars

----------------------------------------------------------------------------
(* DataTracker: the metrics held in memory, the log file and retention *)

\* a line of a file that json.loads rejects
CorruptLine == [corrupt |-> TRUE]
IsCorrupt(line) == "corrupt" \in DOMAIN line

\* the metrics of d written out pod by pod, pod_id set on each
RECURSIVE DataLines(_, _)
DataLines(d, S) ==
    IF S = {} THEN <<>>
    ELSE LET pod_id == CHOOSE q \in S : TRUE
         IN [i \in 1..Len(d[pod_id]) |-> DictSet(d[pod_id][i], "pod_id", pod_id)]
            \o DataLines(d, S \ {pod_id})

\* save_data: the metrics file is rewritten from self.data
save_data(d) == DataLines(d, DOMAIN d)

\* load_data: every parsable line with a pod_id, grouped by pod; a line that
\* does not parse is skipped
load_data(lines) ==
    LET good == SelectSeq(lines, LAMBDA l : ~IsCorrupt(l) /\ Get(l, "pod_id", "") # "")
        pods == {good[i]["pod_id"] : i \in 1..Len(good)}
    IN [pod_id \in pods |-> SelectSeq(good, LAMBDA l : l["pod_id"] = pod_id)]

\* add_metric keeps only the latest metric of the pod in memory
add_metric(d, metric_point) == DictSet(d, metric_point["pod_id"], <<metric_point>>)

seconds_map ==
    [hours |-> 3600, days |-> 24 * 3600, weeks |-> 7 * 24 * 3600,
     months |-> 30 * 24 * 3600, years |-> 365 * 24 * 3600]

\* a retention config is the dict of storage.retention_policy, or (is_dict
\* false) the integer of storage.retention_days
RetentionSkipped(retention_config) ==
    \/ ~retention_config.is_dict
    \/ Get(retention_config, "unit", "") = "forever"
    \/ Get(retention_config, "unit", "") = "years" /\ Get(retention_config, "value", 0) >= 999

RetentionCutoff(retention_config, t) ==
    LET value == Get(retention_config, "value", 30)
        given == Get(retention_config, "unit", "days")
        unit == IF given \in DOMAIN seconds_map THEN given ELSE "days"
    IN t - value * seconds_map[unit]

\* cleanup_old_data: self.data and the metrics file after the call
cleanup_old_data(d, lines, retention_config, t) ==
    IF RetentionSkipped(retention_config) THEN [data |-> d, file |-> lines]
    ELSE LET cutoff_time == RetentionCutoff(retention_config, t)
             filtered == [pod_id \in DOMAIN d |->
                             SelectSeq(d[pod_id],
                                       LAMBDA m : Get(m, "epoch", 0) >= cutoff_time)]
             kept == [pod_id \in {q \in DOMAIN d : filtered[q] # <<>>} |-> filtered[pod_id]]
         IN [data |-> kept, file |-> save_data(kept)]

RetentionConfigs ==
    {[is_dict |-> TRUE, value |-> 1, unit |-> "hours"],
     [is_dict |-> TRUE, value |-> 0, unit |-> "forever"],
     [is_dict |-> TRUE, value |-> 999, unit |-> "years"],
     [is_dict |-> FALSE, value |-> 30]}

\* the poll interval of the retention model and the time it starts at
PollSeconds == 30 * 60
Epoch0 == 2 * 3600

TickPoll ==
    /\ now < Epoch0 + MaxTime * PollSeconds
    /\ now' = now + PollSeconds
    /\ lastop' = NoCall
    /\ UNCHANGED <<log, pod_files, counters, thresholds, excluded_pods, counter_file,
                   pre_write_hooks, post_write_hooks, write_count, streak, data>>
    /\ UNCHANGED <<raw_file, compacted>>
    /\ UNCHANGED auxVars

\* DataTracker.add_metric for one polled pod
AddMetricOf(polled) ==
    /\ write_count < MaxLog
    /\ \E m \in polled :
          \* one sample per pod per poll cycle
          /\ \A i \in 1..Len(log) : log[i]["pod_id"] = m["pod_id"] => log[i]["epoch"] < now
          /\ data' = add_metric(data, m)
          /\ WriteMetric(m, TRUE, TRUE)
    /\ UNCHANGED <<raw_file, compacted>>
    /\ UNCHANGED auxVars

AddMetric == AddMetricOf(PolledMetrics(now))

CleanupOldData(retention_config) ==
    LET r == cleanup_old_data(data, log, retention_config, now)
    IN /\ data' = r.data
       /\ log' = r.file
       /\ lastop' = [op |-> "cleanup_old_data", before |-> log,
                     finite |-> ~RetentionSkipped(retention_config),
                     cutoff |-> IF RetentionSkipped(retention_config) THEN 0
                                ELSE RetentionCutoff(retention_config, now)]
       /\ UNCHANGED <<now, pod_files, counters, thresholds, excluded_pods, counter_file,
                      pre_write_hooks, post_write_hooks, write_count, streak>>
       /\ UNCHANGED <<raw_file, compacted>>
       /\ UNCHANGED auxVars

\* get_all_metrics_data / get_pod_metrics: the file is loaded when nothing
\* is held in memory
GetAllMetricsData ==
    /\ data' = IF data = EmptyDict THEN load_data(log) ELSE data
    /\ lastop' = NoCall
    /\ UNCHANGED <<now, log, pod_files, counters, thresholds, excluded_pods, counter_file,
                   pre_write_hooks, post_write_hooks, write_count, streak>>
    /\ UNCHANGED <<raw_file, compacted>>
    /\ UNCHANGED auxVars

\* a new process: DataTracker.__init__ starts with nothing in memory
RestartTracker ==
    /\ data' = EmptyDict
    /\ lastop' = NoCall
    /\ UNCHANGED <<now, log, pod_files, counters, thresholds, excluded_pods, counter_file,
                   pre_write_hooks, post_write_hooks, write_count, streak>>
    /\ UNCHANGED <<raw_file, compacted>>
    /\ UNCHANGED auxVars

\* a DataTracker as constructed: its MetricWriter has no hooks
InitRetention ==
    /\ InitStores
    /\ now = Epoch0
    /\ pre_write_hooks = <<>>
    /\ post_write_hooks = <<>>

NextRetention ==
    \/ TickPoll
    \/ AddMetric
    \/ \E cfg \in RetentionConfigs : CleanupOldData(cfg)
    \/ GetAllMetricsData
    \/ RestartTracker

SpecRetention == InitRetention /\ [][NextRetention]_vars

----------------------------------------------------------------------------
(* PodMetricsManager: per-pod raw file and its compacted windows *)

\* the lines read before one that json.loads rejects: the exception ends the
\* loop and the metrics read so far are returned
ReadUntilCorrupt(lines) ==
    LET corrupt == {i \in 1..Len(lines) : IsCorrupt(lines[i])}
    IN IF corrupt = {} THEN lines
       ELSE SubSeq(lines, 1, (CHOOSE i \in corrupt : \A j \in corrupt : i <= j) - 1)

\* read_metrics; None stands for an argument left at its default
read_metrics(lines, file_type, limit, start_epoch, end_epoch) ==
    LET parsed == ReadUntilCorrupt(lines)
        keep(metric) ==
            IF file_type \in {"30min", "1hour", "daily"}
            THEN /\ ~(Truthy(start_epoch)
                      /\ Get(metric, "window_end_epoch", 0) < start_epoch)
                 /\ ~(Truthy(end_epoch)
                      /\ Get(metric, "window_start_epoch", 0) > end_epoch)
            ELSE /\ ~(Truthy(start_epoch) /\ Get(metric, "epoch", 0) < start_epoch)
                 /\ ~(Truthy(end_epoch) /\ Get(metric, "epoch", 0) > end_epoch)
        metrics == SelectSeq(parsed, keep)
    IN IF Truthy(limit) /\ Len(metrics) > limit
       THEN SubSeq(metrics, Len(metrics) - limit + 1, Len(metrics))
       ELSE metrics

FileTypeOf(interval_minutes) == IF interval_minutes = 30 THEN "30min" ELSE "1hour"

\* one week of windows
max_points(interval_minutes) == IF interval_minutes = 30 THEN 48 * 7 ELSE 24 * 7

\* a rolling window that keeps the oldest lines
_apply_rolling_window_oldest(lines, interval_minutes) ==
    IF interval_minutes \notin {30, 60} THEN lines
    ELSE IF Len(lines) > max_points(interval_minutes)
    THEN SubSeq(lines, 1, max_points(interval_minutes))
    ELSE lines

_apply_rolling_window(lines, interval_minutes) ==
    IF interval_minutes \notin {30, 60} THEN lines
    ELSE LET current_points == Len(lines)
         IN IF current_points > max_points(interval_minutes)
            THEN LET points_to_remove == current_points - max_points(interval_minutes)
                 IN SubSeq(lines, points_to_remove + 1, current_points)
            ELSE lines

\* every raw metric, processed or not
MetricsToProcessAll(raw_metrics, last_processed_epoch) == raw_metrics

\* the raw metrics newer than the last compacted window
MetricsToProcess(raw_metrics, last_processed_epoch) ==
    SelectSeq(raw_metrics, LAMBDA metric : Get(metric, "epoch", 0) > last_processed_epoch)

\* a window test that lets the window in progress through
WindowSkippedNever(window_start, interval_seconds, current_time) == FALSE

\* the test that skips a window that is not complete yet
WindowSkipped(window_start, interval_seconds, current_time) ==
    LET window_end == window_start + interval_seconds
    IN window_end > current_time /\ (current_time - window_start) < (interval_seconds * 2)

SeqMin(vals) == CHOOSE v \in {vals[i] : i \in 1..Len(vals)} :
                    \A i \in 1..Len(vals) : v <= vals[i]
SeqMax(vals) == CHOOSE v \in {vals[i] : i \in 1..Len(vals)} :
                    \A i \in 1..Len(vals) : v >= vals[i]

\* the aggregate of one window (cpu statistics; memory and gpu are alike)
Aggregated(window_start, interval_minutes, pod_id, window_metrics) ==
    LET cpu_values == [i \in 1..Len(window_metrics) |->
                           Get(window_metrics[i], "cpu_percent", 0)]
        last_metric == window_metrics[Len(window_metrics)]
    IN [window_start_epoch |-> window_start,
        window_end_epoch |-> window_start + interval_minutes * 60,
        interval_minutes |-> interval_minutes,
        pod_id |-> pod_id,
        name |-> Get(last_metric, "name", ""),
        status |-> Get(last_metric, "status", "UNKNOWN"),
        metrics_count |-> Len(window_metrics),
        cpu_min |-> SeqMin(cpu_values),
        cpu_max |-> SeqMax(cpu_values)]

\* the windows of the sorted window starts, the incomplete ones skipped
RECURSIVE EmitWindows(_, _, _, _, _)
EmitWindows(starts, metrics_to_process, interval_minutes, pod_id, current_time) ==
    IF starts = {} THEN <<>>
    ELSE LET interval_seconds == interval_minutes * 60
             window_start == CHOOSE w \in starts : \A v \in starts : w <= v
             window_metrics ==
                 SelectSeq(metrics_to_process,
                           LAMBDA metric :
                               (Get(metric, "epoch", 0) \div interval_seconds)
                               * interval_seconds = window_start)
             rest == EmitWindows(starts \ {window_start}, metrics_to_process,
                                 interval_minutes, pod_id, current_time)
         IN IF WindowSkipped(window_start, interval_seconds, current_time) THEN rest
            ELSE <<Aggregated(window_start, interval_minutes, pod_id, window_metrics)>>
                 \o rest

\* compact_metrics: the compacted file after the call and what it returns
compact_metrics(raw_lines, compacted_lines, pod_id, interval_minutes, current_time) ==
    LET unchanged == [compacted |-> compacted_lines, windows_created |-> 0,
                      metrics_processed |-> 0]
        raw_metrics == read_metrics(raw_lines, "raw", None, None, None)
        existing_compacted ==
            read_metrics(compacted_lines, FileTypeOf(interval_minutes), None, None, None)
        last_processed_epoch ==
            IF existing_compacted # <<>>
            THEN Get(existing_compacted[Len(existing_compacted)], "window_end_epoch", 0)
            ELSE 0
        interval_seconds == interval_minutes * 60
        metrics_to_process == MetricsToProcess(raw_metrics, last_processed_epoch)
        starts == {(Get(metrics_to_process[i], "epoch", 0) \div interval_seconds)
                   * interval_seconds : i \in 1..Len(metrics_to_process)}
        emitted == EmitWindows(starts, metrics_to_process, interval_minutes, pod_id,
                               current_time)
    IN IF interval_minutes \notin {30, 60} THEN unchanged
       ELSE IF raw_metrics = <<>> THEN unchanged
       ELSE IF metrics_to_process = <<>> THEN unchanged
       ELSE [compacted |->
                 IF emitted # <<>>
                 THEN _apply_rolling_window(compacted_lines \o emitted, interval_minutes)
                 ELSE compacted_lines,
             windows_created |-> Len(emitted),
             metrics_processed |-> Len(metrics_to_process)]

\* cleanup_old_raw_metrics: the raw file after the call
cleanup_old_raw_metrics(raw_lines, keep_recent_hours, current_time) ==
    LET cutoff_epoch == current_time - keep_recent_hours * 3600
        raw_metrics == read_metrics(raw_lines, "raw", None, None, None)
        recent_metrics == SelectSeq(raw_metrics,
                                    LAMBDA m : Get(m, "epoch", 0) > cutoff_epoch)
    IN IF raw_metrics = <<>> THEN raw_lines
       ELSE IF Len(raw_metrics) - Len(recent_metrics) > 0 THEN recent_metrics
       ELSE raw_lines

\* the compaction model starts one week after the epoch, polls every quarter
\* of an hour, and its compacted files are empty or hold a full week that
\* earlier runs wrote from raw samples since cleaned up
Week == 7 * 24 * 3600
QuarterHour == 15 * 60
CompactPod == "p1"
FullWeek(interval_minutes) ==
    [i \in 1..max_points(interval_minutes) |->
        Aggregated((i - 1) * interval_minutes * 60, interval_minutes, CompactPod,
                   <<MetricPoint(CompactPod, "RUNNING", IdleLoad,
                                 (i - 1) * interval_minutes * 60 + 60)>>)]
RawSamples(t) ==
    {MetricPoint(CompactPod, "RUNNING", l, t) : l \in {IdleLoad, <<2, 1, 1>>}}

TickCompact ==
    /\ now < Week + MaxPolls * QuarterHour
    /\ now' = now + QuarterHour
    /\ lastop' = NoCall
    /\ UNCHANGED <<log, pod_files, counters, thresholds, excluded_pods, counter_file,
                   pre_write_hooks, post_write_hooks, write_count, streak,
                   data, raw_file, compacted>>
    /\ UNCHANGED auxVars

\* PodMetricsManager.write_metric(pod_id, metric, "raw")
AppendRaw ==
    /\ Len(raw_file) < MaxRaw
    /\ raw_file # <<>> => raw_file[Len(raw_file)]["epoch"] < now
    /\ \E m \in RawSamples(now) : raw_file' = Append(raw_file, m)
    /\ lastop' = NoCall
    /\ UNCHANGED <<now, log, pod_files, counters, thresholds, excluded_pods, counter_file,
                   pre_write_hooks, post_write_hooks, write_count, streak,
                   data, compacted>>
    /\ UNCHANGED auxVars

Compact(interval_minutes) ==
    LET file_type == FileTypeOf(interval_minutes)
        r == compact_metrics(raw_file, compacted[file_type], CompactPod,
                             interval_minutes, now)
    IN /\ compacted' = [compacted EXCEPT ![file_type] = r.compacted]
       /\ lastop' = [op |-> "compact_metrics", interval_minutes |-> interval_minutes,
                     windows_created |-> r.windows_created,
                     metrics_processed |-> r.metrics_processed,
                     before |-> compacted[file_type]]
       /\ UNCHANGED <<now, log, pod_files, counters, thresholds, excluded_pods,
                      counter_file, pre_write_hooks, post_write_hooks, write_count,
                      streak, data, raw_file>>
       /\ UNCHANGED auxVars

CleanupOldRaw(keep_recent_hours) ==
    /\ raw_file' = cleanup_old_raw_metrics(raw_file, keep_recent_hours, now)
    /\ lastop' = NoCall
    /\ UNCHANGED <<now, log, pod_files, counters, thresholds, excluded_pods, counter_file,
                   pre_write_hooks, post_write_hooks, write_count, streak,
                   data, compacted>>
    /\ UNCHANGED auxVars

InitCompact ==
    /\ now = Week
    /\ InitAux
    /\ log = <<>>
    /\ pod_files = EmptyDict
    /\ counters = EmptyDict
    /\ thresholds = EmptyDict
    /\ excluded_pods = {}
    /\ counter_file = EmptyDict
    /\ write_count = 0
    /\ streak = NoStreaks
    /\ lastop = NoCall
    /\ data = EmptyDict
    /\ pre_write_hooks = <<>>
    /\ post_write_hooks = <<>>
    /\ raw_file = <<>>
    /\ \/ compacted = [file_type \in {"30min", "1hour"} |-> <<>>]
       \/ compacted = [file_type \in {"30min", "1hour"} |->
                          FullWeek(IF file_type = "30min" THEN 30 ELSE 60)]

NextCompact ==
    \/ TickCompact
    \/ AppendRaw
    \/ \E interval_minutes \in {30, 60} : Compact(interval_minutes)
    \/ CleanupOldRaw(1)

SpecCompact == InitCompact /\ [][NextCompact]_vars

----------------------------------------------------------------------------
(* Files rewritten in place: open(path, 'w') truncates the file, the lines *)
(* reach it as they are written, and the close ends the rewrite            *)

FileOf(target) ==
    IF target = "log" THEN log
    ELSE IF target = "raw" THEN raw_file
    ELSE compacted[target]

\* the retention sweep up to the open of the metrics file in save_data
SweepOpen(retention_config) ==
    /\ rewrite.target = "none"
    /\ ~RetentionSkipped(retention_config)
    /\ LET r == cleanup_old_data(data, log, retention_config, now)
       IN /\ data' = r.data
          /\ log' = <<>>
          /\ rewrite' = [target |-> "log", old |-> log, new |-> r.file, pending |-> r.file]
    /\ lastop' = NoCall
    /\ UNCHANGED <<now, pod_files, counters, thresholds, excluded_pods, counter_file,
                   pre_write_hooks, post_write_hooks, write_count, streak,
                   raw_file, compacted>>
    /\ UNCHANGED <<disk, monitor, ctl>>

\* cleanup_old_raw_metrics up to the open of the raw file
CleanupRawOpen(keep_recent_hours) ==
    /\ rewrite.target = "none"
    /\ LET recent == cleanup_old_raw_metrics(raw_file, keep_recent_hours, now)
       IN /\ recent # raw_file
          /\ raw_file' = <<>>
          /\ rewrite' = [target |-> "raw", old |-> raw_file, new |-> recent,
                         pending |-> recent]
    /\ lastop' = NoCall
    /\ UNCHANGED <<now, log, pod_files, counters, thresholds, excluded_pods, counter_file,
                   pre_write_hooks, post_write_hooks, write_count, streak,
                   data, compacted>>
    /\ UNCHANGED <<disk, monitor, ctl>>

\* compact_metrics up to the open of the compacted file in
\* _apply_rolling_window: the new windows have been appended
CompactTrimOpen(interval_minutes) ==
    /\ rewrite.target = "none"
    /\ LET file_type == FileTypeOf(interval_minutes)
           r == compact_metrics(raw_file, compacted[file_type], CompactPod,
                                interval_minutes, now)
           written == SubSeq(r.compacted, Len(r.compacted) - r.windows_created + 1,
                             Len(r.compacted))
           appended == compacted[file_type] \o written
       IN /\ r.windows_created > 0
          /\ IF Len(appended) > max_points(interval_minutes)
             THEN /\ compacted' = [compacted EXCEPT ![file_type] = <<>>]
                  /\ rewrite' = [target |-> file_type, old |-> appended,
                                 new |-> r.compacted, pending |-> r.compacted]
             ELSE /\ compacted' = [compacted EXCEPT ![file_type] = r.compacted]
                  /\ UNCHANGED rewrite
    /\ lastop' = NoCall
    /\ UNCHANGED <<now, log, pod_files, counters, thresholds, excluded_pods, counter_file,
                   pre_write_hooks, post_write_hooks, write_count, streak,
                   data, raw_file>>
    /\ UNCHANGED <<disk, monitor, ctl>>

\* a buffer of the rewrite reaches the file: its first line alone, or all
\* that is left
RewriteFlush(n) ==
    /\ rewrite.target # "none"
    /\ n \in 1..Len(rewrite.pending)
    /\ n = 1 \/ n = Len(rewrite.pending)
    /\ n = 1 => FileOf(rewrite.target) = <<>>
    /\ LET content == FileOf(rewrite.target) \o SubSeq(rewrite.pending, 1, n)
       IN /\ log' = IF rewrite.target = "log" THEN content ELSE log
          /\ raw_file' = IF rewrite.target = "raw" THEN content ELSE raw_file
          /\ compacted' = IF rewrite.target \in {"30min", "1hour"}
                          THEN [compacted EXCEPT ![rewrite.target] = content]
                          ELSE compacted
    /\ rewrite' = [rewrite EXCEPT
                       !.pending = SubSeq(rewrite.pending, n + 1, Len(rewrite.pending))]
    /\ lastop' = NoCall
    /\ UNCHANGED <<now, pod_files, counters, thresholds, excluded_pods, counter_file,
                   pre_write_hooks, post_write_hooks, write_count, streak, data>>
    /\ UNCHANGED <<disk, monitor, ctl>>

\* the file is closed
RewriteClose ==
    /\ rewrite.target # "none"
    /\ rewrite.pending = <<>>
    /\ rewrite' = NoRewrite
    /\ lastop' = NoCall
    /\ UNCHANGED <<now, log, pod_files, counters, thresholds, excluded_pods, counter_file,
                   pre_write_hooks, post_write_hooks, write_count, streak,
                   data, raw_file, compacted>>
    /\ UNCHANGED <<disk, monitor, ctl>>

\* the monitoring thread is in one handler at a time; time passes anyway
NextRewrite ==
    \/ now < Week + 3600 /\ TickCompact
    \/ rewrite.target = "none" /\ Len(raw_file) < MaxWrites /\ AppendRaw
    \/ /\ rewrite.target = "none" /\ write_count < MaxWrites
       /\ AddMetricOf({MetricPoint(CompactPod, "RUNNING", IdleLoad, now)})
    \/ SweepOpen([is_dict |-> TRUE, value |-> 1, unit |-> "hours"])
    \/ CleanupRawOpen(1)
    \/ \E interval_minutes \in {30, 60} : CompactTrimOpen(interval_minutes)
    \/ \E n \in {1, Len(rewrite.pending)} : RewriteFlush(n)
    \/ RewriteClose

\* the compacted files hold a full week, so that a run that writes a window trims
InitRewrite ==
    /\ InitCompact
    /\ compacted["30min"] # <<>>

SpecRewrite == InitRewrite /\ [][NextRewrite]_vars

----------------------------------------------------------------------------
(* Migration of the legacy pod_metrics.json at DataTracker construction *)

\* migrate_json_to_jsonl: the files after the call.  write_fails_after is None
\* when every write succeeds, else the number of lines written before the
\* IOError
migrate_json_to_jsonl(dk, lines, write_fails_after) ==
    LET json_file == "pod_metrics.json"
        jsonl_file == dk.metrics_file
        json_exists == dk.legacy_exists
        jsonl_exists == IF jsonl_file = json_file THEN dk.legacy_exists ELSE dk.log_exists
        migrated == DataLines(dk.legacy, DOMAIN dk.legacy)
    IN IF json_exists /\ ~jsonl_exists
       THEN IF write_fails_after = None
            THEN [disk |-> [dk EXCEPT !.legacy_exists = FALSE, !.legacy = EmptyDict,
                                      !.log_exists = TRUE],
                  log |-> migrated]
            ELSE [disk |-> [dk EXCEPT !.log_exists = TRUE],
                  log |-> SubSeq(migrated, 1, write_fails_after)]
       ELSE [disk |-> dk, log |-> lines]

\* the map an older version left in pod_metrics.json: the records carry no pod_id
LegacyRecord(t) ==
    [timestamp |-> t, epoch |-> t, name |-> NameOf("p1"), status |-> "RUNNING",
     cpu_percent |-> 1, gpu_percent |-> 1, memory_percent |-> 1]
LegacyMap == [pod_id \in {"p1"} |-> <<LegacyRecord(3600), LegacyRecord(5400)>>]

\* storage.metrics_file: pod_metrics.json is what load_config falls back to
MetricsFileNames == {"pod_metrics.json", "pod_metrics.jsonl"}

\* DataTracker.__init__ as load_config runs it
Startup(write_fails_after) ==
    /\ write_fails_after \in {None} \cup 0..(Len(DataLines(disk.legacy, DOMAIN disk.legacy)) - 1)
    /\ LET r == migrate_json_to_jsonl(disk, log, write_fails_after)
       IN /\ disk' = r.disk
          /\ log' = r.log
    /\ data' = EmptyDict
    /\ lastop' = [op |-> "startup", legacy_existed |-> disk.legacy_exists,
                  legacy |-> disk.legacy, failed |-> write_fails_after # None,
                  before |-> log]
    /\ UNCHANGED <<now, pod_files, counters, thresholds, excluded_pods, counter_file,
                   pre_write_hooks, post_write_hooks, write_count, streak,
                   raw_file, compacted, rewrite, monitor, ctl>>

\* add_metric: the append creates the metrics file when it is missing
RecordSample ==
    /\ write_count < MaxWrites
    /\ \E m \in PolledMetrics(now) :
          /\ \A i \in 1..Len(log) : log[i]["pod_id"] = m["pod_id"] => log[i]["epoch"] < now
          /\ data' = add_metric(data, m)
          /\ WriteMetric(m, TRUE, TRUE)
    /\ disk' = [disk EXCEPT !.log_exists = TRUE]
    /\ UNCHANGED <<raw_file, compacted, rewrite, monitor, ctl>>

InitMigrate ==
    /\ now = Epoch0
    /\ log = <<>>
    /\ pod_files = EmptyDict
    /\ counters = EmptyDict
    /\ thresholds = EmptyDict
    /\ excluded_pods = {}
    /\ counter_file = EmptyDict
    /\ write_count = 0
    /\ streak = NoStreaks
    /\ lastop = NoCall
    /\ data = EmptyDict
    /\ pre_write_hooks = <<>>
    /\ post_write_hooks = <<>>
    /\ raw_file = <<>>
    /\ compacted = [file_type \in {"30min", "1hour"} |-> <<>>]
    /\ rewrite = NoRewrite
    /\ monitor = NoMonitor("main")
    /\ ctl = NoCtl
    /\ \E name \in MetricsFileNames : \E legacy_exists \in BOOLEAN :
           disk = [metrics_file |-> name, legacy_exists |-> legacy_exists,
                   legacy |-> IF legacy_exists THEN LegacyMap ELSE EmptyDict,
                   log_exists |-> FALSE]

NextMigrate ==
    \/ TickPoll
    \/ \E f \in {None, 0, 1} : Startup(f)
    \/ RecordSample

SpecMigrate == InitMigrate /\ [][NextMigrate]_vars

----------------------------------------------------------------------------
(* Files holding a line that does not parse *)

MaxCorrupt == 1

WellFormed(lines) == SelectSeq(lines, LAMBDA l : ~IsCorrupt(l))

\* initialize_from_jsonl on a file that may hold unparsable lines: json.loads
\* raises inside the try around the whole read, and the handler returns
initialize_from_file(c, lines, thr, current_time) ==
    IF \E i \in 1..Len(lines) : IsCorrupt(lines[i])
    THEN c
    ELSE initialize_from_jsonl(c, lines, thr, current_time)

\* add_metric of one polled sample, through the writer and its hooks
RecordPolled ==
    /\ write_count < MaxLog
    /\ \E m \in {MetricPoint(p, "RUNNING", l, now) : p \in Pods, l \in {IdleLoad, <<2, 1, 1>>}} :
          /\ \A i \in 1..Len(log) : Get(log[i], "epoch", 0) < now
          /\ data' = add_metric(data, m)
          /\ WriteMetric(m, TRUE, TRUE)
    /\ UNCHANGED <<raw_file, compacted>>
    /\ UNCHANGED auxVars

\* an append cut short (process killed, disk full) leaves a line that is not JSON
TornLog ==
    /\ Len(SelectSeq(log, IsCorrupt)) < MaxCorrupt
    /\ log' = Append(log, CorruptLine)
    /\ lastop' = NoCall
    /\ UNCHANGED <<now, pod_files, counters, thresholds, excluded_pods, counter_file,
                   pre_write_hooks, post_write_hooks, write_count, streak>>
    /\ UNCHANGED storeVars

TornPodFile(pod_id) ==
    /\ Len(SelectSeq(Get(pod_files, pod_id, <<>>), IsCorrupt)) < MaxCorrupt
    /\ pod_files' = DictSet(pod_files, pod_id,
                            Append(Get(pod_files, pod_id, <<>>), CorruptLine))
    /\ lastop' = NoCall
    /\ UNCHANGED <<now, log, counters, thresholds, excluded_pods, counter_file,
                   pre_write_hooks, post_write_hooks, write_count, streak>>
    /\ UNCHANGED storeVars

\* DataTracker.load_data
LoadData ==
    /\ data' = load_data(log)
    /\ lastop' = Call("load_data")
    /\ UNCHANGED <<now, log, pod_files, counters, thresholds, excluded_pods, counter_file,
                   pre_write_hooks, post_write_hooks, write_count, streak,
                   raw_file, compacted>>
    /\ UNCHANGED auxVars

\* PodMetricsManager.read_metrics(pod_id, "raw")
ReadMetrics(pod_id) ==
    /\ lastop' = [op |-> "read_metrics", pod_id |-> pod_id,
                  result |-> read_metrics(Get(pod_files, pod_id, <<>>), "raw",
                                          None, None, None)]
    /\ UNCHANGED <<now, log, pod_files, counters, thresholds, excluded_pods, counter_file,
                   pre_write_hooks, post_write_hooks, write_count, streak>>
    /\ UNCHANGED storeVars

\* AutoStopTracker.initialize_from_jsonl on the metrics file as it is on disk
InitializeFromFile(thr) ==
    /\ counters' = IF log = <<>> THEN counters
                   ELSE initialize_from_file(counters, log, thr, now)
    /\ counter_file' = IF log = <<>> \/ (\E i \in 1..Len(log) : IsCorrupt(log[i]))
                       THEN counter_file ELSE counters'
    /\ streak' = NoStreaks
    /\ lastop' = [op |-> "initialize_from_file", before |-> counters, thresholds |-> thr]
    /\ UNCHANGED <<now, log, pod_files, thresholds, excluded_pods,
                   pre_write_hooks, post_write_hooks, write_count>>
    /\ UNCHANGED storeVars

InitCorrupt ==
    /\ InitCommon
    /\ pre_write_hooks = <<"validate_metric_hook">>
    /\ post_write_hooks = <<"update_auto_stop_counter_hook", "separate_by_pod_hook">>

NextCorrupt ==
    \/ Tick
    \/ RecordPolled
    \/ TornLog
    \/ \E p \in Pods : TornPodFile(p)
    \/ LoadData
    \/ \E p \in Pods : ReadMetrics(p)
    \/ \E d \in RebuildDurations : InitializeFromFile(Thresholds(d))

SpecCorrupt == InitCorrupt /\ [][NextCorrupt]_vars

----------------------------------------------------------------------------
(* The monitoring loops: main.monitor_pods and server.simple_monitoring_loop *)

\* what one poll brings back: fetch_pods returning None, a pod snapshot whose
\* runtime.container is null, or a snapshot add_metric can read
PollKinds == {"api_error", "container_null", "ok"}

\* one pass of the while loop of monitor_pods.  The try is around the whole
\* loop: an exception leaving the body ends the loop.
MainCycle(kind, load, io_ok, pod_io_ok) ==
    LET m == MetricPoint(CompactPod, "RUNNING", load, now)
        cycle == [kind |-> kind, io_ok |-> io_ok, swept |-> FALSE,
                  metric |-> IF kind = "ok" THEN m ELSE EmptyDict]
    IN /\ monitor.mode = "main"
       /\ monitor.running
       /\ monitor.last_poll < now
       /\ write_count < MaxLog
       /\ IF kind = "ok"
          THEN \* add_metric, apply_rolling_window (keeps the new point), and
               \* cleanup_old_data(retention_days), which returns at once
               /\ data' = add_metric(data, m)
               /\ WriteMetric(m, io_ok, pod_io_ok)
               /\ monitor' = [monitor EXCEPT !.last_poll = now, !.current_time = now,
                                             !.last = cycle]
          ELSE /\ monitor' = [monitor EXCEPT !.last_poll = now, !.current_time = now,
                                             !.last = cycle,
                                             !.running = (kind # "container_null")]
               /\ lastop' = NoCall
               /\ UNCHANGED <<now, log, pod_files, counters, thresholds, excluded_pods,
                              counter_file, pre_write_hooks, post_write_hooks,
                              write_count, streak, data>>
       /\ UNCHANGED <<raw_file, compacted, rewrite, disk, ctl>>

\* one pass of the while loop of simple_monitoring_loop.  The try is inside
\* the loop and ends before the retention block, which reads current_time.
ServerCycle(kind, load, io_ok, pod_io_ok, retention_config) ==
    LET m == MetricPoint(CompactPod, "RUNNING", load, now)
        current_time == IF kind = "api_error" THEN monitor.current_time ELSE now
        unbound == current_time = None
        w == write_metric(m, io_ok, pod_io_ok)
        wrote == kind = "ok"
        log1 == IF wrote /\ w.appended THEN Append(log, w.metric) ELSE log
        data1 == IF wrote THEN add_metric(data, m) ELSE data
        due == ~unbound /\ current_time % 3600 < 60
        r == IF due THEN cleanup_old_data(data1, log1, retention_config, now)
             ELSE [data |-> data1, file |-> log1]
    IN /\ monitor.mode = "server"
       /\ monitor.running
       /\ monitor.last_poll < now
       /\ write_count < MaxLog
       /\ log' = r.file
       /\ data' = r.data
       /\ write_count' = IF wrote /\ w.appended THEN write_count + 1 ELSE write_count
       /\ counters' = IF wrote THEN w.state.counters ELSE counters
       /\ counter_file' = IF wrote THEN w.state.counter_file ELSE counter_file
       /\ pod_files' = IF wrote THEN w.state.pod_files ELSE pod_files
       /\ streak' = IF wrote THEN w.state.streak ELSE streak
       /\ lastop' = NoCall
       /\ monitor' = [monitor EXCEPT
                         !.last_poll = now, !.current_time = current_time,
                         !.running = ~unbound,
                         !.last = [kind |-> kind, io_ok |-> io_ok,
                                   swept |-> due /\ r.file # log1,
                                   metric |-> IF wrote THEN w.metric ELSE EmptyDict]]
       /\ UNCHANGED <<now, thresholds, excluded_pods, pre_write_hooks, post_write_hooks,
                      raw_file, compacted, rewrite, disk, ctl>>

InitLoop ==
    /\ now = Epoch0
    /\ log = <<>>
    /\ pod_files = EmptyDict
    /\ counters = EmptyDict
    /\ thresholds = EmptyDict
    /\ excluded_pods = {}
    /\ counter_file = EmptyDict
    /\ write_count = 0
    /\ streak = NoStreaks
    /\ lastop = NoCall
    /\ data = EmptyDict
    /\ raw_file = <<>>
    /\ compacted = [file_type \in {"30min", "1hour"} |-> <<>>]
    /\ rewrite = NoRewrite
    /\ disk = NoFiles
    /\ pre_write_hooks = <<"validate_metric_hook">>
    /\ post_write_hooks = <<"separate_by_pod_hook">>
    /\ \E mode \in {"main", "server"} : monitor = NoMonitor(mode)
    /\ ctl = NoCtl

NextLoop ==
    \/ TickPoll
    \/ \E kind \in PollKinds : \E load \in {IdleLoad, <<2, 1, 1>>} :
       \E io_ok \in BOOLEAN : \E pod_io_ok \in BOOLEAN :
           MainCycle(kind, load, io_ok, pod_io_ok)
    \/ \E kind \in PollKinds : \E load \in {IdleLoad, <<2, 1, 1>>} :
       \E io_ok \in BOOLEAN : \E pod_io_ok \in BOOLEAN :
       \E cfg \in RetentionConfigs :
           ServerCycle(kind, load, io_ok, pod_io_ok, cfg)

SpecLoop == InitLoop /\ [][NextLoop]_vars

----------------------------------------------------------------------------
(* DataTracker.check_auto_stop_conditions over the per-pod raw file *)

\* get_recent_metrics: read_metrics of the raw file from the cutoff on
get_recent_metrics(lines, duration_seconds, t) ==
    read_metrics(lines, "raw", None, t - duration_seconds, None)

NoChangeDetected(recent_metrics) ==
    LET first_metric == recent_metrics[1]
    IN \A i \in 1..Len(recent_metrics) :
          /\ Get(recent_metrics[i], "cpu_percent", 0) = Get(first_metric, "cpu_percent", 0)
          /\ Get(recent_metrics[i], "gpu_percent", 0) = Get(first_metric, "gpu_percent", 0)
          /\ Get(recent_metrics[i], "memory_percent", 0)
                = Get(first_metric, "memory_percent", 0)

ThresholdMet(recent_metrics, thr) ==
    \A i \in 1..Len(recent_metrics) :
       ~(\/ Get(recent_metrics[i], "cpu_percent", 0) > thr["max_cpu_percent"]
         \/ Get(recent_metrics[i], "gpu_percent", 0) > thr["max_gpu_percent"]
         \/ Get(recent_metrics[i], "memory_percent", 0) > thr["max_memory_percent"])

ExcludedByCheck(lines, pod_id, excl, t) ==
    LET named == get_recent_metrics(lines, 300, t)
    IN /\ excl # {}
       /\ \/ pod_id \in excl
          \/ named # <<>> /\ Get(named[Len(named)], "name", "") \in excl

\* a check that never looks at detect_no_change
check_auto_stop_thresholds_only(lines, pod_id, thr, excl, t) ==
    LET recent_metrics == get_recent_metrics(lines, thr["duration"], t)
    IN IF ExcludedByCheck(lines, pod_id, excl, t) THEN FALSE
       ELSE IF Len(recent_metrics) < 3 THEN FALSE
       ELSE IF \E i \in 1..Len(recent_metrics) :
                  Get(recent_metrics[i], "status", None) # "RUNNING" THEN FALSE
       ELSE ThresholdMet(recent_metrics, thr)

check_auto_stop_conditions(lines, pod_id, thr, excl, t) ==
    LET recent_metrics == get_recent_metrics(lines, thr["duration"], t)
    IN IF ExcludedByCheck(lines, pod_id, excl, t) THEN FALSE
       ELSE IF recent_metrics = <<>> THEN FALSE
       ELSE IF Len(recent_metrics) < 3 THEN FALSE
       ELSE IF \E i \in 1..Len(recent_metrics) :
                  Get(recent_metrics[i], "status", None) # "RUNNING" THEN FALSE
       ELSE IF Get(thr, "detect_no_change", FALSE) /\ NoChangeDetected(recent_metrics)
       THEN TRUE
       ELSE ThresholdMet(recent_metrics, thr)

\* samples of the polled pod: idle, busy on one or on every field, or exited
StopSamples(t) ==
    {MetricPoint(CompactPod, "RUNNING", l, t) : l \in {IdleLoad, <<2, 1, 1>>, <<2, 2, 2>>}}
    \cup {MetricPoint(CompactPod, "EXITED", <<0, 0, 0>>, t)}

\* thresholds with detect_no_change on, off, or left out
StopThresholds ==
    {DictSet(Thresholds(d), "detect_no_change", b) :
        d \in {2 * PollSeconds, 3 * PollSeconds}, b \in BOOLEAN}
    \cup {[k \in {"max_cpu_percent", "max_gpu_percent", "max_memory_percent", "duration"}
             |-> Thresholds(2 * PollSeconds)[k]]}

\* PodMetricsManager.write_metric(pod_id, metric, "raw") of one polled sample
AppendSample ==
    /\ Len(raw_file) < MaxRaw
    /\ raw_file # <<>> => raw_file[Len(raw_file)]["epoch"] < now
    /\ \E m \in StopSamples(now) : raw_file' = Append(raw_file, m)
    /\ lastop' = NoCall
    /\ UNCHANGED <<now, log, pod_files, counters, thresholds, excluded_pods, counter_file,
                   pre_write_hooks, post_write_hooks, write_count, streak,
                   data, compacted>>
    /\ UNCHANGED auxVars

CheckAutoStop(thr, excl) ==
    /\ lastop' = [op |-> "check_auto_stop_conditions", thresholds |-> thr,
                  excluded_pods |-> excl,
                  result |-> check_auto_stop_conditions(raw_file, CompactPod, thr, excl, now)]
    /\ UNCHANGED <<now, log, pod_files, counters, thresholds, excluded_pods, counter_file,
                   pre_write_hooks, post_write_hooks, write_count, streak>>
    /\ UNCHANGED storeVars

InitStop ==
    /\ now = Epoch0
    /\ InitStores
    /\ pre_write_hooks = <<>>
    /\ post_write_hooks = <<>>

NextStop ==
    \/ TickPoll
    \/ AppendSample
    \/ \E thr \in StopThresholds : \E excl \in ExcludedChoices : CheckAutoStop(thr, excl)

SpecStop == InitStop /\ [][NextStop]_vars

----------------------------------------------------------------------------
(* The stages of one write_metric call, in the order they happen *)

\* a pre-write loop in which every hook is handed the caller's metric
RECURSIVE PreEventsFromInput(_, _, _, _)
PreEventsFromInput(hooks, i, metric, t) ==
    IF i > Len(hooks) THEN <<>>
    ELSE LET r == RunPreHook(hooks[i], metric, t)
         IN <<[stage |-> "pre", index |-> i, hook |-> hooks[i], received |-> metric,
               raised |-> r.raised, returned |-> r.metric]>>
            \o (IF r.returned_none THEN <<>>
                ELSE PreEventsFromInput(hooks, i + 1, metric, t))

\* the pre-write loop from hook i on: what each hook is called with and returns
RECURSIVE PreEvents(_, _, _, _)
PreEvents(hooks, i, metric, t) ==
    IF i > Len(hooks) THEN <<>>
    ELSE LET r == RunPreHook(hooks[i], metric, t)
         IN <<[stage |-> "pre", index |-> i, hook |-> hooks[i], received |-> metric,
               raised |-> r.raised, returned |-> r.metric]>>
            \o (IF r.returned_none THEN <<>>
                ELSE PreEvents(hooks, i + 1, IF r.raised THEN metric ELSE r.metric, t))

\* the post-write loop: every hook is called with the metric that was written
PostEvents(hooks, metric) ==
    [i \in 1..Len(hooks) |->
        [stage |-> "post", index |-> i, hook |-> hooks[i], received |-> metric,
         raised |-> FALSE, returned |-> metric]]

\* the calls write_metric makes, in order
WriteEvents(metric_point, io_ok, pod_io_ok) ==
    LET w == write_metric(metric_point, io_ok, pod_io_ok)
        pre == PreEvents(pre_write_hooks, 1, metric_point, now)
        skipped == ~w.appended /\ ~w.io_error
        persist == [stage |-> "persist", index |-> 0, hook |-> "open", received |-> w.metric,
                    raised |-> ~io_ok, returned |-> w.metric]
    IN IF skipped THEN pre
       ELSE IF ~io_ok THEN Append(pre, persist)
       ELSE Append(pre, persist) \o PostEvents(post_write_hooks, w.metric)

\* write_metric, keeping the order of its calls
TracedWrite ==
    /\ Len(log) < MaxWrites
    /\ \E m \in DirectMetrics(now) : \E io_ok \in BOOLEAN : \E pod_io_ok \in BOOLEAN :
          LET w == write_metric(m, io_ok, pod_io_ok)
          IN /\ log' = IF w.appended THEN Append(log, w.metric) ELSE log
             /\ write_count' = IF w.appended THEN write_count + 1 ELSE write_count
             /\ counters' = w.state.counters
             /\ counter_file' = w.state.counter_file
             /\ pod_files' = w.state.pod_files
             /\ streak' = w.state.streak
             /\ lastop' = [op |-> "traced_write", input |-> m, result |-> w.result,
                           events |-> WriteEvents(m, io_ok, pod_io_ok)]
    /\ UNCHANGED <<now, thresholds, excluded_pods, pre_write_hooks, post_write_hooks>>
    /\ UNCHANGED storeVars

NextChain ==
    \/ \E h \in PreHooks : AddPreWriteHook(h)
    \/ \E h \in PostHooks : AddPostWriteHook(h)
    \/ TracedWrite

SpecChain == InitWriter /\ [][NextChain]_vars

----------------------------------------------------------------------------
(* simple_monitoring_loop with pods that come and go *)

\* the pods the API can report
ApiPods == <<"p1", "p2">>
PodLists == {<<"p1">>, <<"p2">>, <<"p1", "p2">>}

\* the record written for a tracked pod the API no longer reports
TerminationRecord(last_metric, t) ==
    [k \in (DOMAIN last_metric) \cup {"uptime_seconds"} |->
        IF k \in {"timestamp", "epoch"} THEN t
        ELSE IF k = "status" THEN "TERMINATED"
        ELSE IF k \in {"cpu_percent", "gpu_percent", "memory_percent", "uptime_seconds"} THEN 0
        ELSE last_metric[k]]

\* the termination loop: data after it, and whether save_data ran
RECURSIVE LogTerminations(_, _, _)
LogTerminations(d, terminated_pod_ids, t) ==
    IF terminated_pod_ids = {} THEN [data |-> d, saved |-> FALSE]
    ELSE LET pod_id == CHOOSE q \in terminated_pod_ids : TRUE
             pod_data == d[pod_id]
             already_terminated ==
                 \E i \in 1..Len(pod_data) : Get(pod_data[i], "status", None) = "TERMINATED"
             rest(d1) == LogTerminations(d1, terminated_pod_ids \ {pod_id}, t)
         IN IF pod_data # <<>> /\ ~already_terminated
            THEN [data |-> rest(DictSet(d, pod_id,
                                        Append(pod_data,
                                               TerminationRecord(pod_data[Len(pod_data)], t)))).data,
                  saved |-> TRUE]
            ELSE rest(d)

\* add_metric for every reported pod in turn (no pod is excluded, the writer
\* has no hooks): the point replaces the pod's list and is appended to the log
RECURSIVE CollectPods(_, _, _, _)
CollectPods(st, pods, i, t) ==
    IF i > Len(pods) THEN st
    ELSE LET m == MetricPoint(pods[i], "RUNNING", IdleLoad, t)
         IN CollectPods([data |-> add_metric(st.data, m), log |-> Append(st.log, m)],
                        pods, i + 1, t)

\* one pass of the loop for a non-empty pod list
PollPods(pods, retention_config) ==
    LET current_pod_ids == {pods[i] : i \in 1..Len(pods)}
        term == LogTerminations(data, (DOMAIN data) \ current_pod_ids, now)
        log1 == IF term.saved THEN save_data(term.data) ELSE log
        collected == CollectPods([data |-> term.data, log |-> log1], pods, 1, now)
        due == now % 3600 < 60
        r == IF due
             THEN cleanup_old_data(collected.data, collected.log, retention_config, now)
             ELSE [data |-> collected.data, file |-> collected.log]
    IN /\ monitor.mode = "server"
       /\ monitor.running
       /\ monitor.last_poll < now
       /\ write_count < MaxLog
       /\ data' = r.data
       /\ log' = r.file
       /\ write_count' = write_count + Len(pods)
       /\ monitor' = [monitor EXCEPT !.last_poll = now, !.current_time = now,
                                     !.last = [kind |-> "ok", io_ok |-> TRUE,
                                               swept |-> due /\ r.file # collected.log,
                                               metric |-> collected.log[Len(collected.log)]]]
       /\ lastop' = [op |-> "poll_cycle", before |-> log, terminated |-> term.saved,
                     finite |-> due /\ ~RetentionSkipped(retention_config),
                     cutoff |-> IF due /\ ~RetentionSkipped(retention_config)
                                THEN RetentionCutoff(retention_config, now) ELSE 0]
       /\ UNCHANGED <<now, pod_files, counters, thresholds, excluded_pods, counter_file,
                      pre_write_hooks, post_write_hooks, streak,
                      raw_file, compacted, rewrite, disk, ctl>>

InitPods ==
    /\ now = Epoch0
    /\ log = <<>>
    /\ pod_files = EmptyDict
    /\ counters = EmptyDict
    /\ thresholds = EmptyDict
    /\ excluded_pods = {}
    /\ counter_file = EmptyDict
    /\ write_count = 0
    /\ streak = NoStreaks
    /\ lastop = NoCall
    /\ data = EmptyDict
    /\ raw_file = <<>>
    /\ compacted = [file_type \in {"30min", "1hour"} |-> <<>>]
    /\ rewrite = NoRewrite
    /\ disk = NoFiles
    /\ pre_write_hooks = <<>>
    /\ post_write_hooks = <<>>
    /\ monitor = NoMonitor("server")
    /\ ctl = NoCtl

NextPods ==
    \/ TickPoll
    \/ \E pods \in PodLists : \E cfg \in RetentionConfigs : PollPods(pods, cfg)

SpecPods == InitPods /\ [][NextPods]_vars

----------------------------------------------------------------------------
(* Appends and compact runs with the raw file left whole *)

NextWindows ==
    \/ TickCompact
    \/ AppendRaw
    \/ \E interval_minutes \in {30, 60} : Compact(interval_minutes)

SpecWindows == InitCompact /\ [][NextWindows]_vars

----------------------------------------------------------------------------
(* The loop's stop decision against the dashboard editing the configuration *)

ConfigThresholds == Thresholds(2 * PollSeconds)

\* simple_monitoring_loop, for the polled pod, up to the return of
\* check_auto_stop_conditions: the exclusion test, add_metric, the flags read
\* into locals, the check on the file add_metric has just appended to
PodCheck ==
    LET exclude_pods == ctl.exclude_pods
        is_excluded == CompactPod \in exclude_pods \/ NameOf(CompactPod) \in exclude_pods
        enabled == ctl.enabled
        monitor_only == ctl.monitor_only
    IN /\ ctl.pc = "idle"
       /\ Len(raw_file) < MaxRaw
       /\ raw_file # <<>> => raw_file[Len(raw_file)]["epoch"] < now
       /\ IF is_excluded
          THEN /\ data' = DictDel(data, CompactPod)
               /\ raw_file' = raw_file
               /\ ctl' = [ctl EXCEPT !.stop_invoked = FALSE,
                                     !.would_stop_reported = FALSE]
          ELSE \E load \in {IdleLoad, <<2, 1, 1>>} :
                  LET m == MetricPoint(CompactPod, "RUNNING", load, now)
                      written == Append(raw_file, m)
                      decision == check_auto_stop_conditions(written, CompactPod,
                                      ConfigThresholds, exclude_pods, now)
                  IN /\ data' = add_metric(data, m)
                     /\ raw_file' = written
                     /\ ctl' = [ctl EXCEPT
                                   !.pc = IF (enabled \/ monitor_only) /\ decision
                                          THEN "checked" ELSE "idle",
                                   !.local_enabled = enabled,
                                   !.local_monitor_only = monitor_only,
                                   !.stop_invoked = FALSE,
                                   !.would_stop_reported = FALSE]
       /\ lastop' = NoCall
       /\ UNCHANGED <<now, log, pod_files, counters, thresholds, excluded_pods,
                      counter_file, pre_write_hooks, post_write_hooks,
                      write_count, streak, compacted, rewrite, disk, monitor>>

\* what the loop does with a check that returned True: the MONITOR-ONLY line
\* if the monitor_only it read was set, else stop_pod if the enabled it read
\* was set
PodAct ==
    /\ ctl.pc = "checked"
    /\ ctl' = [ctl EXCEPT !.pc = "idle",
                          !.stop_invoked = ~ctl.local_monitor_only /\ ctl.local_enabled,
                          !.would_stop_reported = ctl.local_monitor_only]
    /\ lastop' = NoCall
    /\ UNCHANGED <<now, log, pod_files, counters, thresholds, excluded_pods, counter_file,
                   pre_write_hooks, post_write_hooks, write_count, streak,
                   data, raw_file, compacted, rewrite, disk, monitor>>

\* a handler of the dashboard replacing part of the configuration
EditConfig(new) ==
    /\ new # ctl
    /\ ctl' = [new EXCEPT !.stop_invoked = FALSE, !.would_stop_reported = FALSE]
    /\ lastop' = NoCall
    /\ UNCHANGED <<now, log, pod_files, counters, thresholds, excluded_pods, counter_file,
                   pre_write_hooks, post_write_hooks, write_count, streak,
                   data, raw_file, compacted, rewrite, disk, monitor>>

\* POST /{pod_id}/exclude and POST /{pod_id}/include
ExcludePod(pod_id) ==
    EditConfig([ctl EXCEPT !.exclude_pods = @ \cup {pod_id}])
IncludePod(pod_id) ==
    EditConfig([ctl EXCEPT !.exclude_pods = @ \ {pod_id}])

\* update_auto_stop_config
UpdateAutoStopConfig(enabled, monitor_only) ==
    EditConfig([ctl EXCEPT !.enabled = enabled, !.monitor_only = monitor_only])

NextRace ==
    \/ TickPoll
    \/ PodCheck
    \/ PodAct
    \/ ExcludePod(CompactPod)
    \/ IncludePod(CompactPod)
    \/ \E enabled \in BOOLEAN : \E monitor_only \in BOOLEAN :
           UpdateAutoStopConfig(enabled, monitor_only)

SpecRace == InitStop /\ [][NextRace]_vars

----------------------------------------------------------------------------
(* The monitoring threads: who starts them, and what stops them *)

Callers == {"background_init", "event_loop"}

\* a thread running one of the two loops; both loops are while True around
\* a poll cycle (MainCycle, ServerCycle above) and a sleep
NewThread(target) == [target |-> target, alive |-> TRUE, pc |-> "sleeping"]

is_alive(th) == th.alive

LiveThreads == {i \in DOMAIN ctl.threads : is_alive(ctl.threads[i])}

\* the frame every step of this part leaves alone
ThreadsFrame ==
    /\ lastop' = NoCall
    /\ UNCHANGED <<now, log, pod_files, counters, thresholds, excluded_pods, counter_file,
                   pre_write_hooks, post_write_hooks, write_count, streak,
                   data, raw_file, compacted, rewrite, disk, monitor>>

\* server.py run as a script: load_config, the simple_monitoring_loop thread
\* started without any test, then uvicorn.run(app), whose startup event hands
\* the initialisation to a background_init thread
ServerMain(config_loaded, init_ok) ==
    /\ ctl.phase = "off"
    /\ ctl' = [ctl EXCEPT
                  !.phase = "serving",
                  !.config_loaded = config_loaded,
                  !.threads = Append(@, NewThread("simple_monitoring_loop")),
                  !.callers["background_init"] =
                      IF init_ok /\ config_loaded THEN "test" ELSE "done"]
    /\ ThreadsFrame

\* the event loop takes a POST /monitoring/start; its handlers are coroutines
\* without an await around the call, so it runs one at a time
StartMonitoringEndpoint ==
    /\ ctl.phase = "serving"
    /\ ctl.callers["event_loop"] \in {"off", "done"}
    /\ ctl.calls < MaxCalls
    /\ ctl' = [ctl EXCEPT !.callers["event_loop"] = "test", !.calls = @ + 1]
    /\ ThreadsFrame

\* start_monitoring_background up to its test:
\* if config: if monitoring_thread is None or not monitoring_thread.is_alive()
StartTest(c) ==
    /\ ctl.callers[c] = "test"
    /\ LET none_or_dead == \/ ctl.monitoring_thread = 0
                           \/ ~is_alive(ctl.threads[ctl.monitoring_thread])
       IN ctl' = [ctl EXCEPT
                     !.callers[c] = IF ctl.config_loaded /\ none_or_dead
                                    THEN "start" ELSE "done"]
    /\ ThreadsFrame

\* start_monitoring_background past its test: the flag, the Thread, start()
StartThread(c) ==
    /\ ctl.callers[c] = "start"
    /\ ctl' = [ctl EXCEPT
                  !.callers[c] = "done",
                  !.monitoring_active = TRUE,
                  !.stop_requested = FALSE,
                  !.threads = Append(@, NewThread("monitor_pods")),
                  !.monitoring_thread = Len(ctl.threads) + 1]
    /\ ThreadsFrame

\* stop_monitoring_background, from POST /monitoring/stop on the event loop
StopMonitoring ==
    /\ ctl.phase = "serving"
    /\ ctl.callers["event_loop"] \in {"off", "done"}
    /\ ctl' = [ctl EXCEPT !.monitoring_active = FALSE, !.stop_requested = TRUE]
    /\ ctl' # ctl
    /\ ThreadsFrame

\* one turn of while True in either loop: a poll cycle, then the sleep; no
\* turn reads monitoring_active
LoopTurn(i) ==
    /\ i \in LiveThreads
    /\ ctl' = [ctl EXCEPT
                  !.threads[i].pc = IF @ = "sleeping" THEN "polling" ELSE "sleeping"]
    /\ ThreadsFrame

\* monitor_pods has its try around the while: an exception in a cycle ends the
\* thread; simple_monitoring_loop catches inside the loop and goes on
LoopRaises(i) ==
    /\ i \in LiveThreads
    /\ ctl.threads[i].target = "monitor_pods"
    /\ ctl.threads[i].pc = "polling"
    /\ ctl' = [ctl EXCEPT !.threads[i] = [@ EXCEPT !.alive = FALSE, !.pc = "ended"]]
    /\ ThreadsFrame

NextThreads ==
    \/ \E config_loaded \in BOOLEAN : \E init_ok \in BOOLEAN :
           ServerMain(config_loaded, init_ok)
    \/ StartMonitoringEndpoint
    \/ \E c \in Callers : StartTest(c)
    \/ \E c \in Callers : StartThread(c)
    \/ StopMonitoring
    \/ \E i \in DOMAIN ctl.threads : LoopTurn(i)
    \/ \E i \in DOMAIN ctl.threads : LoopRaises(i)

SpecThreads == InitStop /\ [][NextThreads]_vars

\* every live thread is scheduled again and again, and a call under way
\* runs to its end
FairThreads ==
    /\ \A i \in 1..(MaxCalls + 2) : WF_vars(LoopTurn(i))
    /\ \A c \in Callers : WF_vars(StartTest(c)) /\ WF_vars(StartThread(c))

SpecThreadsFair == SpecThreads /\ FairThreads

----------------------------------------------------------------------------
(* Properties *)

Excluded(p) == p \in excluded_pods \/ NameOf(p) \in excluded_pods
WroteWith(hooks) == lastop.op = "write_metric" /\ lastop.post_run = hooks
Running(m) == Get(m, "status", "UNKNOWN") = "RUNNING"
NotExcluded(m) ==
    Get(m, "pod_id", "") \notin excluded_pods /\ Get(m, "name", "") \notin excluded_pods
AboveAny(m) ==
    \/ Get(m, "cpu_percent", 0) > Get(thresholds, "max_cpu_percent", 1)
    \/ Get(m, "gpu_percent", 0) > Get(thresholds, "max_gpu_percent", 1)
    \/ Get(m, "memory_percent", 0) > Get(thresholds, "max_memory_percent", 1)
\* the status of the newest line of the log for a pod ("" when it has none)
RECURSIVE LastStatus(_, _, _)
LastStatus(lg, i, p) ==
    IF i = 0 THEN ""
    ELSE IF Get(lg[i], "pod_id", "") = p THEN Get(lg[i], "status", "UNKNOWN")
         ELSE LastStatus(lg, i - 1, p)

\* C1: check_auto_stop(pod) answers should_stop = true exactly when the pod
\* has an entry whose consecutive_below_threshold is at least 3 and whose
\* first_below_epoch lies at least the required duration before now; with no
\* entry, a counter below 3 or too little elapsed time it answers false.
C1_CheckAutoStopIff ==
    \A p \in Pods :
        check_auto_stop(p).should_stop
        <=> /\ p \in DOMAIN counters
            /\ counters[p].consecutive_below_threshold >= 3
            /\ counters[p].first_below_epoch # None
            /\ now - counters[p].first_below_epoch >= Get(thresholds, "duration", 3600)

C1_Witness ==
    \E p \in Pods :
        /\ check_auto_stop(p).should_stop
        /\ counters[p].consecutive_below_threshold = 3
        /\ now - counters[p].first_below_epoch = thresholds["duration"]

\* C2: in every reachable state check_auto_stop(p) answers should_stop =
\* false for every pod whose id or display name is in the excluded list.
C2_ExclusionSafety ==
    \A p \in Pods : Excluded(p) => ~check_auto_stop(p).should_stop

\* C3: from a pod with no entry, after N >= 1 consecutive update_counter calls
\* whose samples are all RUNNING, not excluded and at or below every
\* threshold, consecutive_below_threshold is N and first_below_epoch is the
\* epoch of the first of the N samples.
C3_MonotonicCounter ==
    \A p \in Pods :
        streak[p].n > 0
        => /\ p \in DOMAIN counters
           /\ counters[p].consecutive_below_threshold = streak[p].n
           /\ counters[p].first_below_epoch = streak[p].first

C3_Witness ==
    \E p \in Pods :
        /\ streak[p].n = 3
        /\ p \in DOMAIN counters
        /\ counters[p].last_check_epoch > streak[p].first

\* C4: for a RUNNING, non-excluded pod one update_counter call with a sample
\* above any of the three thresholds leaves consecutive_below_threshold = 0
\* and first_below_epoch = None, whatever streak it had; and the next
\* below-threshold sample starts a new streak with counter 1 and
\* first_below_epoch equal to that sample's epoch.
C4_ResetOnBreach ==
    WroteWith(<<"update_auto_stop_counter_hook">>)
    => LET m == lastop.metric
           p == Get(m, "pod_id", "")
       IN /\ (p # "" /\ Running(m) /\ NotExcluded(m) /\ AboveAny(m))
             => /\ p \in DOMAIN counters
                /\ counters[p].consecutive_below_threshold = 0
                /\ counters[p].first_below_epoch = None
          /\ (/\ p \in DOMAIN lastop.before
              /\ lastop.before[p].consecutive_below_threshold = 0
              /\ lastop.before[p].first_below_epoch = None
              /\ Running(m) /\ NotExcluded(m) /\ ~AboveAny(m))
             => /\ p \in DOMAIN counters
                /\ counters[p].consecutive_below_threshold = 1
                /\ counters[p].first_below_epoch = m["epoch"]

\* a streak, a breach on memory alone, and the first sample of the new streak
C4_Witness ==
    /\ WroteWith(<<"update_auto_stop_counter_hook">>)
    /\ Len(log) = 3
    /\ log[1]["status"] = "RUNNING" /\ log[1]["memory_percent"] = 1
    /\ log[2]["status"] = "RUNNING" /\ log[2]["memory_percent"] = 2
    /\ log[2]["pod_id"] \in DOMAIN lastop.before
    /\ lastop.before[log[2]["pod_id"]].consecutive_below_threshold = 0
    /\ lastop.before[log[2]["pod_id"]].last_check_epoch = log[2]["epoch"]
    /\ log[2]["pod_id"] \in DOMAIN counters
    /\ counters[log[2]["pod_id"]].consecutive_below_threshold = 1
    /\ counters[log[2]["pod_id"]].first_below_epoch = log[3]["epoch"]
    /\ log[3]["epoch"] > log[1]["epoch"]

\* C5: in every reachable state every entry of the counter store has
\* consecutive_below_threshold > 0 exactly when first_below_epoch is not None.
C5_CounterIffEpoch ==
    \A p \in DOMAIN counters :
        counters[p].consecutive_below_threshold > 0
        <=> counters[p].first_below_epoch # None

C5_Witness ==
    /\ lastop.op = "initialize_from_jsonl"
    /\ \E p \in DOMAIN counters :
           /\ counters[p].consecutive_below_threshold = 0
           /\ counters[p].first_below_epoch = None
           /\ counters[p].status = "RUNNING"

\* C6: after update_counter processes a sample that is not RUNNING or whose
\* pod is excluded the store has no entry for that pod, repeating the call
\* changes nothing, and in every reachable state the store holds no entry for
\* a pod whose most recent recorded sample was not RUNNING.
C6_NoStaleEntry ==
    /\ WroteWith(<<"update_auto_stop_counter_hook">>)
       => LET m == lastop.metric
              p == Get(m, "pod_id", "")
          IN (p # "" /\ (~Running(m) \/ ~NotExcluded(m)))
             => /\ p \notin DOMAIN counters
                /\ update_counter(counters, m, thresholds, excluded_pods, now).counters
                   = counters
    /\ \A p \in Pods :
           LastStatus(log, Len(log), p) \notin {"", "RUNNING"} => p \notin DOMAIN counters

\* C7: when the append of a sample to the log fails, write_metric returns
\* False, no post-write hook runs, nothing is appended and the counter store
\* is exactly as it was before the call.
C7_FailedAppendLeavesCounters ==
    (lastop.op = "write_metric" /\ lastop.io_error)
    => /\ lastop.result = FALSE
       /\ lastop.post_run = <<>>
       /\ ~lastop.appended
       /\ counters = lastop.before

\* the append fails for a sample that the registered counter hook would count
C7_Witness ==
    /\ lastop.op = "write_metric" /\ lastop.io_error
    /\ \E i \in 1..Len(post_write_hooks) :
           post_write_hooks[i] = "update_auto_stop_counter_hook"
    /\ counters # EmptyDict
    /\ update_counter(counters, lastop.metric, thresholds, excluded_pods, now).counters
       # counters

\* C8: when a pre-write hook signals failure for a sample (the validation
\* hook on a sample missing pod_id, timestamp or epoch), nothing is appended
\* to the log, no post-write hook runs and write_metric returns False.
C8_PreHookFailureRejects ==
    (lastop.op = "write_metric" /\ lastop.pre_raised # <<>>)
    => /\ ~lastop.appended
       /\ lastop.post_run = <<>>
       /\ lastop.result = FALSE

\* C9: a post-write hook that fails does not undo or hide the write: the
\* appended line stays in the log, every later post-write hook of the chain
\* still runs (the counter hook after a failed pod-file hook updates the
\* counters), and write_metric returns True.
C9_PostHookFailureKeepsWrite ==
    (lastop.op = "write_metric" /\ lastop.post_raised # <<>>)
    => /\ lastop.appended
       /\ log # <<>> /\ log[Len(log)] = lastop.metric
       /\ lastop.result = TRUE
       /\ lastop.post_run = post_write_hooks
       /\ post_write_hooks = <<"separate_by_pod_hook", "update_auto_stop_counter_hook">>
          => counters = update_counter(lastop.before, lastop.metric, thresholds,
                                       excluded_pods, now).counters

C9_Witness ==
    /\ lastop.op = "write_metric"
    /\ lastop.post_raised = <<"separate_by_pod_hook">>
    /\ post_write_hooks = <<"separate_by_pod_hook", "update_auto_stop_counter_hook">>
    /\ counters # lastop.before

\* C10: for any log contents, thresholds and fixed current time, running
\* initialize_from_jsonl a second time leaves the counter store exactly as
\* the first run left it.
C10_IdempotentRebuild ==
    \A thr \in {Thresholds(d) : d \in RebuildDurations} \cup {thresholds} :
        LET once == initialize_from_jsonl(counters, log, thr, now)
        IN initialize_from_jsonl(once, log, thr, now) = once

\* a rebuild has just run with the oldest sample outside its window
C10_Witness ==
    /\ lastop.op = "initialize_from_jsonl"
    /\ \E p \in DOMAIN counters :
           /\ counters[p].consecutive_below_threshold = 2
           /\ Len(log) = 3
           /\ \A i \in 1..3 : log[i]["pod_id"] = p /\ ~AboveAny(log[i])
    /\ initialize_from_jsonl(counters, log, Thresholds(2), now) = counters

\* the samples of a log fed in epoch order through update_counter
RECURSIVE Replay(_, _, _, _, _)
Replay(c, ms, i, thr, t) ==
    IF i > Len(ms) THEN c
    ELSE Replay(update_counter(c, ms[i], thr, {}, t).counters, ms, i + 1, thr, t)

\* what an entry says about the streak of a pod
StreakOf(c, p) ==
    IF p \in DOMAIN c
    THEN <<c[p].consecutive_below_threshold, c[p].first_below_epoch>>
    ELSE <<0, None>>

InWindow(lg, thr, t) ==
    \A i \in 1..Len(lg) : lg[i]["epoch"] >= t - Get(thr, "duration", DefaultDuration)

\* C11: for a log whose samples all lie inside the required-duration window,
\* initialize_from_jsonl on an empty store gives every pod the same
\* consecutive_below_threshold and the same first_below_epoch as feeding the
\* same samples in epoch order through update_counter on an empty store.
C11_RebuildEqualsReplay ==
    \A thr \in {Thresholds(d) : d \in RebuildDurations} :
        InWindow(log, thr, now)
        => \A p \in Pods :
               StreakOf(initialize_from_jsonl(EmptyDict, log, thr, now), p)
               = StreakOf(Replay(EmptyDict, SortByEpoch(log), 1, thr, now), p)

\* the part of C11 that the code keeps: over RUNNING samples the rebuilt
\* count is the replayed count
C11_CountsAgreeOnRunning ==
    \A thr \in {Thresholds(d) : d \in RebuildDurations} :
        (InWindow(log, thr, now) /\ \A i \in 1..Len(log) : Running(log[i]))
        => \A p \in Pods :
               StreakOf(initialize_from_jsonl(EmptyDict, log, thr, now), p)[1]
               = StreakOf(Replay(EmptyDict, SortByEpoch(log), 1, thr, now), p)[1]

\* C12: a sweep with a finite retention policy removes from the metric log
\* exactly the records with epoch < now - policy seconds, and every record
\* with epoch >= that cutoff that was in the log before the sweep is still in
\* the log afterwards, whether or not it was held in memory.
C12_RetentionCorrectness ==
    (lastop.op = "cleanup_old_data" /\ lastop.finite)
    => log = SelectSeq(lastop.before, LAMBDA m : m["epoch"] >= lastop.cutoff)

\* C13: running compact_metrics a second time with no new raw samples and no
\* change of the current time creates zero windows, and over any sequence of
\* appends and compact runs no window (same window_start_epoch) appears twice
\* in a compacted file.
C13_CompactionIdempotent ==
    /\ \A interval_minutes \in {30, 60} :
           LET first_run == compact_metrics(raw_file, compacted[FileTypeOf(interval_minutes)],
                                            CompactPod, interval_minutes, now)
               second_run == compact_metrics(raw_file, first_run.compacted,
                                             CompactPod, interval_minutes, now)
           IN second_run.windows_created = 0 /\ second_run.compacted = first_run.compacted
    /\ \A file_type \in {"30min", "1hour"} :
           Cardinality({compacted[file_type][i].window_start_epoch :
                            i \in 1..Len(compacted[file_type])})
           = Len(compacted[file_type])

\* a run has just written windows and left raw samples of the window in
\* progress unprocessed
C13_Witness ==
    /\ lastop.op = "compact_metrics"
    /\ lastop.windows_created > 0
    /\ LET lines == compacted[FileTypeOf(lastop.interval_minutes)]
       IN raw_file[Len(raw_file)]["epoch"] > lines[Len(lines)].window_end_epoch

\* C14: compact_metrics never emits a window in progress: every window it
\* writes, at the 30-minute and at the 60-minute resolution, has
\* window_end_epoch <= the time of the run that wrote it, so every window of
\* a compacted file has ended.
C14_NoInProgressWindow ==
    /\ \A file_type \in {"30min", "1hour"} :
           \A i \in 1..Len(compacted[file_type]) :
               compacted[file_type][i].window_end_epoch <= now
    /\ lastop.op = "compact_metrics"
       => LET lines == compacted[FileTypeOf(lastop.interval_minutes)]
          IN \A i \in (Len(lines) - lastop.windows_created + 1)..Len(lines) :
                 /\ lines[i].window_end_epoch <= now
                 /\ lines[i].window_end_epoch
                    = lines[i].window_start_epoch + lastop.interval_minutes * 60

\* a run wrote the window that ends now and skipped the one in progress,
\* which already has a raw sample
C14_Witness ==
    /\ lastop.op = "compact_metrics"
    /\ lastop.windows_created > 0
    /\ lastop.metrics_processed > 0
    /\ LET lines == compacted[FileTypeOf(lastop.interval_minutes)]
       IN /\ lines[Len(lines)].window_end_epoch = now
          /\ raw_file[Len(raw_file)]["epoch"] = now

\* C15: after every compact run the compacted file holds at most one week of
\* windows (336 at the 30-minute resolution, 168 at the 60-minute one), and
\* what the trim removes are the oldest windows: the file is the most recent
\* lines of the old file, in order, followed by the windows just written.
C15_RollingCap ==
    /\ Len(compacted["30min"]) <= 336
    /\ Len(compacted["1hour"]) <= 168
    /\ lastop.op = "compact_metrics"
       => LET lines == compacted[FileTypeOf(lastop.interval_minutes)]
              kept == Len(lines) - lastop.windows_created
              removed == Len(lastop.before) - kept
          IN /\ kept >= 0 /\ removed >= 0
             /\ SubSeq(lines, 1, kept) = SubSeq(lastop.before, removed + 1, Len(lastop.before))
             /\ removed > 0 => Len(lines) = max_points(lastop.interval_minutes)
             /\ \A i \in 1..(Len(lines) - 1) :
                    lines[i].window_start_epoch < lines[i + 1].window_start_epoch

\* a run added two windows to a full file and the two oldest went
C15_Witness ==
    /\ lastop.op = "compact_metrics"
    /\ lastop.windows_created = 2
    /\ Len(lastop.before) = max_points(lastop.interval_minutes)
    /\ LET lines == compacted[FileTypeOf(lastop.interval_minutes)]
       IN /\ Len(lines) = max_points(lastop.interval_minutes)
          /\ lines[1] = lastop.before[3]

\* C16: every read-then-rewrite of a stored file (the retention sweep of the
\* metric log, the rolling-cap trim of a compacted file, the raw-sample
\* cleanup) replaces the file atomically: what a reader finds in the file
\* while the rewrite runs is the complete old contents or the complete new
\* contents, never an empty or partly written file.
C16_AtomicReplace ==
    rewrite.target # "none"
    => FileOf(rewrite.target) \in {rewrite.old, rewrite.new}

\* C17: when a legacy pod_metrics.json exists at startup, every record of it
\* ends up in the line-delimited log exactly once with its pod_id, the legacy
\* file is deleted only after the new log has been completely written, and
\* running the migration again changes nothing.
C17_MigrationOnce ==
    (lastop.op = "startup" /\ lastop.legacy_existed)
    => LET records == DataLines(lastop.legacy, DOMAIN lastop.legacy)
           complete == \A i \in 1..Len(records) :
                           Len(SelectSeq(log, LAMBDA l : l = records[i])) = 1
       IN /\ complete
          /\ ~disk.legacy_exists => complete
          /\ migrate_json_to_jsonl(disk, log, None) = [disk |-> disk, log |-> log]

\* C18: a corrupt line in a log is skipped without aborting the read: every
\* well-formed line before and after it is returned by the full-log load and
\* by the per-pod read, and taken into account by the rebuild of the counters.
C18_CorruptLineSkipped ==
    /\ lastop.op = "load_data"
       => \A i \in 1..Len(log) :
             ~IsCorrupt(log[i])
             => /\ log[i]["pod_id"] \in DOMAIN data
                /\ \E j \in 1..Len(data[log[i]["pod_id"]]) : data[log[i]["pod_id"]][j] = log[i]
    /\ lastop.op = "read_metrics"
       => LET file == Get(pod_files, lastop.pod_id, <<>>)
          IN \A i \in 1..Len(file) :
                ~IsCorrupt(file[i]) => \E j \in 1..Len(lastop.result) : lastop.result[j] = file[i]
    /\ (lastop.op = "initialize_from_file" /\ log # <<>>)
       => counters = initialize_from_jsonl(lastop.before, WellFormed(log),
                                           lastop.thresholds, now)

\* the part of C18 that the full-log load satisfies
C18_LoadSkipsOnlyCorrupt ==
    lastop.op = "load_data"
    => \A i \in 1..Len(log) :
          ~IsCorrupt(log[i])
          => /\ log[i]["pod_id"] \in DOMAIN data
             /\ \E j \in 1..Len(data[log[i]["pod_id"]]) : data[log[i]["pod_id"]][j] = log[i]

\* C19: no error halts ingestion: after a sample whose processing fails
\* (invalid sample, failed append, failing hook, failed retention step) the
\* monitoring loop is still running, and the sample of a later cycle that
\* succeeds is recorded.
C19_NoErrorHaltsIngestion ==
    /\ monitor.running
    /\ (monitor.last.kind = "ok" /\ monitor.last.io_ok /\ ~monitor.last.swept)
       => (log # <<>> /\ log[Len(log)] = monitor.last.metric)

\* the failures that C19 names and the loops do survive: a failed append
\* and a raising hook leave the loop running
C19_WriteFailuresSurvived ==
    (monitor.last.kind = "ok") => monitor.running

\* the samples of the raw file inside the window of the last check
C20Window ==
    SelectSeq(raw_file, LAMBDA m : m["epoch"] >= now - lastop.thresholds["duration"])
C20Identical ==
    \A i \in 1..Len(C20Window) :
       /\ C20Window[i]["cpu_percent"] = C20Window[1]["cpu_percent"]
       /\ C20Window[i]["gpu_percent"] = C20Window[1]["gpu_percent"]
       /\ C20Window[i]["memory_percent"] = C20Window[1]["memory_percent"]
C20AllBelow ==
    \A i \in 1..Len(C20Window) : _is_below_threshold(C20Window[i], lastop.thresholds)
C20DetectOn == Get(lastop.thresholds, "detect_no_change", FALSE)
\* not excluded by id or name, at least three samples in the window, all RUNNING
C20Eligible ==
    /\ CompactPod \notin lastop.excluded_pods
    /\ NameOf(CompactPod) \notin lastop.excluded_pods
    /\ Len(C20Window) >= 3
    /\ \A i \in 1..Len(C20Window) : C20Window[i]["status"] = "RUNNING"

\* C20 as stated: when detect_no_change is on and every sample in the window
\* has numeric fields identical to the first sample of the window, the stop
\* decision is true whatever the values; when detect_no_change is off the
\* decision depends only on the thresholds.
C20_NoChangeAsStated ==
    lastop.op = "check_auto_stop_conditions"
    => /\ (C20DetectOn /\ C20Window # <<>> /\ C20Identical) => lastop.result
       /\ ~C20DetectOn => (lastop.result <=> C20AllBelow)

\* C20 (amended): for a pod that is not excluded and whose window holds at
\* least three samples, all RUNNING: when detect_no_change is on and every
\* sample has cpu, gpu and memory identical to the first sample of the window
\* the stop decision is true whatever the values; when detect_no_change is
\* off the decision is true exactly when every sample of the window is at or
\* below the three thresholds.
C20_NoChangeDetector ==
    (lastop.op = "check_auto_stop_conditions" /\ C20Eligible)
    => /\ (C20DetectOn /\ C20Identical) => lastop.result
       /\ ~C20DetectOn => (lastop.result <=> C20AllBelow)

\* a check with detect_no_change on that stops a pod frozen above every threshold
C20_Witness ==
    /\ lastop.op = "check_auto_stop_conditions"
    /\ C20Eligible
    /\ C20DetectOn
    /\ C20Identical
    /\ ~C20AllBelow
    /\ lastop.result

StageRank(stage) == IF stage = "pre" THEN 1 ELSE IF stage = "persist" THEN 2 ELSE 3
StageEvents(events, stage) == SelectSeq(events, LAMBDA e : e.stage = stage)

\* C21: for every write the stages run in the order pre-write hooks, persist,
\* post-write hooks; within a stage the hooks run one at a time in the order
\* they were registered, and each pre-write hook receives the value the
\* previous one returned.
C21_StagesInOrder ==
    lastop.op = "traced_write"
    => LET events == lastop.events
           pre == StageEvents(events, "pre")
           persist == StageEvents(events, "persist")
           post == StageEvents(events, "post")
       IN /\ \A i \in 1..Len(events) : \A j \in 1..Len(events) :
                i < j => StageRank(events[i].stage) <= StageRank(events[j].stage)
          /\ Len(persist) <= 1
          /\ Len(pre) <= Len(pre_write_hooks)
          /\ \A k \in 1..Len(pre) : pre[k].hook = pre_write_hooks[k]
          /\ post # <<>> => Len(post) = Len(post_write_hooks)
          /\ \A k \in 1..Len(post) : post[k].hook = post_write_hooks[k]
          /\ \A k \in 1..Len(pre) :
                pre[k].received = IF k = 1 THEN lastop.input
                                  ELSE IF pre[k - 1].raised THEN pre[k - 1].received
                                  ELSE pre[k - 1].returned
          /\ \A k \in 1..Len(post) : post[k].received = persist[1].received

\* a write whose second pre-write hook is handed what the first one added
C21_Witness ==
    /\ lastop.op = "traced_write"
    /\ Len(lastop.events) >= 3
    /\ lastop.events[1].hook = "add_metadata_hook"
    /\ lastop.events[2].stage = "pre"
    /\ lastop.events[2].received # lastop.input
    /\ lastop.events[3].stage = "persist"

\* C22: the metric log is append-only: over poll cycles, pod disappearances
\* and retention sweeps, a record once appended stays in the log unchanged
\* unless a retention sweep removes it for being older than the cutoff.
C22_AppendOnly ==
    lastop.op = "poll_cycle"
    => \A i \in 1..Len(lastop.before) :
          \/ \E j \in 1..Len(log) : log[j] = lastop.before[i]
          \/ lastop.finite /\ lastop.before[i]["epoch"] < lastop.cutoff

\* C23: a pod is stopped only if it has been below threshold continuously for
\* at least the configured duration: three or more qualifying RUNNING samples
\* never suffice when the time from the oldest of them to now is shorter
\* than the duration.
C23_StopOnlyAfterDuration ==
    (lastop.op = "check_auto_stop_conditions" /\ lastop.result)
    => LET recent == SelectSeq(raw_file,
                               LAMBDA m : m["epoch"] >= now - lastop.thresholds["duration"])
       IN /\ recent # <<>>
          /\ now - recent[1]["epoch"] >= lastop.thresholds["duration"]

\* the samples at the end of ms that are RUNNING and below threshold
RECURSIVE TrailingQualifying(_, _, _)
TrailingQualifying(ms, i, thr) ==
    IF i = 0 THEN 0
    ELSE IF Get(ms[i], "status", "UNKNOWN") = "RUNNING" /\ _is_below_threshold(ms[i], thr)
         THEN 1 + TrailingQualifying(ms, i - 1, thr)
         ELSE 0

\* C24: during initialize_from_jsonl the backward walk from a pod's newest
\* sample stops at the first above-threshold sample or the first non-RUNNING
\* sample: a STOPPED, EXITED or TERMINATED sample is never counted into
\* consecutive_below_threshold and no streak extends across it.
C24_WalkStopsAtNonRunning ==
    \A thr \in {Thresholds(d) : d \in RebuildDurations} : \A p \in Pods :
        LET rebuilt == initialize_from_jsonl(EmptyDict, log, thr, now)
            ms == SortByEpoch(RecentMetrics(log, p, now - thr["duration"]))
        IN p \in DOMAIN rebuilt
           => rebuilt[p].consecutive_below_threshold = TrailingQualifying(ms, Len(ms), thr)

\* C25: the state after initialize_from_jsonl depends only on the log, the
\* thresholds and the current time, not on the counter snapshot: a store
\* loaded from any persisted snapshot and a store started empty, rebuilt from
\* the same log, end in identical states, so a snapshot entry for a pod with
\* no sample in the recent window does not survive the rebuild.
C25_RebuildIgnoresSnapshot ==
    \A thr \in {Thresholds(d) : d \in RebuildDurations} :
        \A snapshot \in {counters, counter_file} :
            initialize_from_jsonl(snapshot, log, thr, now)
            = initialize_from_jsonl(EmptyDict, log, thr, now)

\* C26: with samples appended in non-decreasing epoch order and compact run
\* at arbitrary points in between, after a run every raw sample whose window
\* has elapsed is aggregated into exactly one window, the one with
\* window_start = (epoch \div interval) * interval (a sample on a window
\* boundary belongs to the window starting there), and the metrics_count of
\* each window written from the raw file is the number of raw samples with
\* epoch in [window_start, window_start + interval).
C26_EverySampleInOneWindow ==
    lastop.op = "compact_metrics"
    => LET interval_seconds == lastop.interval_minutes * 60
           lines == compacted[FileTypeOf(lastop.interval_minutes)]
           StartOf(epoch) == (epoch \div interval_seconds) * interval_seconds
       IN /\ \A i \in 1..Len(raw_file) :
                StartOf(raw_file[i]["epoch"]) + interval_seconds <= now
                => Cardinality({j \in 1..Len(lines) :
                                  lines[j].window_start_epoch = StartOf(raw_file[i]["epoch"])})
                   = 1
          /\ \A j \in 1..Len(lines) :
                lines[j].window_start_epoch >= Week
                => lines[j].metrics_count
                   = Cardinality({i \in 1..Len(raw_file) :
                                    StartOf(raw_file[i]["epoch"]) = lines[j].window_start_epoch})

C30_BranchOnFlagsAsRead ==
    /\ ctl.stop_invoked => (ctl.local_enabled /\ ~ctl.local_monitor_only)
    /\ ctl.would_stop_reported => (ctl.local_monitor_only /\ ~ctl.stop_invoked)
    /\ ctl.pc = "checked" => (ctl.local_enabled \/ ctl.local_monitor_only)

\* C28: under any interleaving of the server entry point, the startup event
\* and the calls of start_monitoring_background, no more than one live
\* monitoring thread exists, so at most one loop writes to the metric log.
C28_AtMostOneMonitoringThread ==
    Cardinality(LiveThreads) <= 1

\* the test of start_monitoring_background alone: never two live threads
\* running monitor_pods
C28_AtMostOneMonitorPods ==
    Cardinality({i \in LiveThreads : ctl.threads[i].target = "monitor_pods"}) <= 1

\* C29: after stop_monitoring_background is called the background monitoring
\* thread eventually stops: with every thread scheduled fairly, a stop request
\* leads to a state where no thread running monitor_pods is alive, so that it
\* polls, writes and stops nothing from then on.
C29_StopRequestEndsThread ==
    ctl.stop_requested
        ~> ({i \in LiveThreads : ctl.threads[i].target = "monitor_pods"} = {})

====
